---- MODULE Spec2Model ----
(***************************************************************************)
(* Slug allocation, post persistence and SEO scoring of the blog platform. *)
(*                                                                         *)
(* State: the rows of the posts table (id, title, slug) and the local      *)
(* variables of the in-flight HTTP handlers.  Every step is one database   *)
(* call of a handler together with the synchronous code that follows it    *)
(* up to the next await, so handlers interleave exactly at their awaits.   *)
(* Strings are sequences of one-character strings.                         *)
(*                                                                         *)
(* The requests modelled are those of an authenticated user who may write  *)
(* the post (its author or an ADMIN), with the default empty tags array;   *)
(* of a post row the model keeps the id, the title and the slug.           *)
(*                                                                         *)
(* The two SEO scorers (analyzeSEO of the API, the SEOAnalyzer component   *)
(* of the editor) are functions of the post form; they are applied to a    *)
(* set of forms whose HTML content is rendered character by character.     *)
(*                                                                         *)
(* The routers of the API (seo, posts, analytics, backup, comments) are    *)
(* modelled request by request over the tables they share (db), the clock  *)
(* (now) and the last response sent (res); the backup creation, the only   *)
(* handler that writes a row it has created earlier, is modelled await by  *)
(* await.                                                                  *)
(***************************************************************************)
EXTENDS Naturals, Sequences, FiniteSets

\* ------------------------------------------------------------------ bounds

\* Creation requests are accepted while the posts table and the creations in
\* flight stay within MaxPosts rows (requests served one at a time) or
\* MaxRacePosts rows (requests served concurrently).
MaxPosts == 3
MaxRacePosts == 2

\* ------------------------------------------------------------ characters

UpperCase ==
  <<"A", "B", "C", "D", "E", "F", "G", "H", "I", "J", "K", "L", "M",
    "N", "O", "P", "Q", "R", "S", "T", "U", "V", "W", "X", "Y", "Z">>
LowerCase ==
  <<"a", "b", "c", "d", "e", "f", "g", "h", "i", "j", "k", "l", "m",
    "n", "o", "p", "q", "r", "s", "t", "u", "v", "w", "x", "y", "z">>

Upper == {UpperCase[i] : i \in DOMAIN UpperCase}
Lower == {LowerCase[i] : i \in DOMAIN LowerCase}
Digit == {"0", "1", "2", "3", "4", "5", "6", "7", "8", "9"}
Space == {" "}

\* toLowerCase of one character.
toLowerCase(ch) ==
  IF ch \in Upper
  THEN LowerCase[CHOOSE i \in DOMAIN UpperCase : UpperCase[i] = ch]
  ELSE ch

\* slugify's charMap: the entries for the characters the model uses.
charMap(ch) == IF ch = "&" THEN <<"a", "n", "d">> ELSE <<ch>>

\* The characters slugify keeps in its first pass when no `remove` option is
\* given: the complement of /[^\w\s$*_+~.()'"!\-:@]+/g.
DefaultKeep ==
  Upper \cup Lower \cup Digit \cup Space \cup
  {"_", "$", "*", "+", "~", ".", "(", ")", "'", "!", "-", ":", "@"}

\* remove: /[*+~.()'"!:@]/g of the generate-slug endpoint.
SeoRemove == {"*", "+", "~", ".", "(", ")", "'", "!", ":", "@"}

\* ---------------------------------------------------------------- slugify

RECURSIVE Filter(_, _)
\* s.replace(/[class]/g, '') with the class given as the set of kept chars.
Filter(s, keep) ==
  IF s = <<>> THEN <<>>
  ELSE (IF Head(s) \in keep THEN <<Head(s)>> ELSE <<>>) \o Filter(Tail(s), keep)

RECURSIVE FilterOut(_, _)
FilterOut(s, drop) ==
  IF s = <<>> THEN <<>>
  ELSE (IF Head(s) \in drop THEN <<>> ELSE <<Head(s)>>) \o FilterOut(Tail(s), drop)

RECURSIVE MapChars(_, _, _)
\* First pass of slugify: each character is replaced through charMap, the
\* replacement character '-' becomes a space, and the result is stripped by
\* the remove pattern.  useDefault selects the default pattern; otherwise
\* `drop` is the class of the custom pattern.
MapChars(s, useDefault, drop) ==
  IF s = <<>> THEN <<>>
  ELSE LET mapped == charMap(Head(s))
           appendChar == IF mapped = <<"-">> THEN <<" ">> ELSE mapped
           kept == IF useDefault THEN Filter(appendChar, DefaultKeep)
                   ELSE FilterOut(appendChar, drop)
       IN  kept \o MapChars(Tail(s), useDefault, drop)

RECURSIVE TrimLeft(_)
TrimLeft(s) ==
  IF s # <<>> /\ Head(s) \in Space THEN TrimLeft(Tail(s)) ELSE s

RECURSIVE TrimRight(_)
TrimRight(s) ==
  IF s # <<>> /\ s[Len(s)] \in Space THEN TrimRight(SubSeq(s, 1, Len(s) - 1)) ELSE s

RECURSIVE CollapseSpaces(_)
\* slug.replace(/\s+/g, '-')
CollapseSpaces(s) ==
  IF s = <<>> THEN <<>>
  ELSE IF Head(s) \in Space
       THEN <<"-">> \o CollapseSpaces(TrimLeft(s))
       ELSE <<Head(s)>> \o CollapseSpaces(Tail(s))

RECURSIVE LowerAll(_)
LowerAll(s) ==
  IF s = <<>> THEN <<>> ELSE <<toLowerCase(Head(s))>> \o LowerAll(Tail(s))

\* slugify(string, {lower: true, strict: true, remove?})
slugifyWith(s, useDefault, drop) ==
  LET pass1  == MapChars(s, useDefault, drop)
      strict == Filter(pass1, Upper \cup Lower \cup Digit \cup Space)
      trim   == TrimRight(TrimLeft(strict))
  IN  LowerAll(CollapseSpaces(trim))

\* slugify(title, { lower: true, strict: true })
slugify(title) == slugifyWith(title, TRUE, {})

\* slugify(title, { lower: true, strict: true, remove: /[*+~.()'"!:@]/g })
slugifySeo(title) == slugifyWith(title, FALSE, SeoRemove)

\* ---------------------------------------------------- template literal

DigitChar(d) ==
  CASE d = 0 -> "0" [] d = 1 -> "1" [] d = 2 -> "2" [] d = 3 -> "3"
    [] d = 4 -> "4" [] d = 5 -> "5" [] d = 6 -> "6" [] d = 7 -> "7"
    [] d = 8 -> "8" [] d = 9 -> "9"

RECURSIVE NumToString(_)
\* `${counter}`: the decimal digits of a non-negative integer.
NumToString(n) ==
  IF n < 10 THEN <<DigitChar(n)>>
  ELSE NumToString(n \div 10) \o <<DigitChar(n % 10)>>

\* `${baseSlug}-${counter}`
Suffixed(baseSlug, counter) == baseSlug \o <<"-">> \o NumToString(counter)

\* ------------------------------------------------------------------ inputs

\* Request bodies carry one of these titles (all pass the validators: length
\* 1..200 / notEmpty).
Titles ==
  { <<"F", "o", "o">>,                       \* "Foo"
    <<" ", "f", "o", "o", "!">>,             \* " foo!"
    <<"F", "o", "o", " ", "-", " ", "1">>,   \* "Foo - 1"
    <<"!", "!", "!", "#", "#", "#">> }       \* "!!!###"

\* The titles of the requests that are served concurrently.
RaceTitles ==
  { <<"F", "o", "o">>,                       \* "Foo"
    <<"F", "o", "o", " ", "1">> }            \* "Foo 1"

\* ============================================================== SEO scorers

\* The largest number of <img> tags in an analysed document.
MaxImgs == 2

\* The thresholds of the checks.
TitleMin  == 30
TitleMax  == 60
MetaMin   == 120
MetaMax   == 160
SlugMax   == 75
UiSlugMax == 60
MinWords  == 300
MaxTags   == 10

\* ----------------------------------------------------------------- strings

\* The character c, n times.
Str(n, c) == [i \in 1..n |-> c]

\* \s of the regular expressions.
WhiteSpace == {" ", "\n"}

\* s.includes(needle)
includes(s, needle) ==
  \E k \in 1..(Len(s) - Len(needle) + 1) :
    \A j \in 1..Len(needle) : s[k + j - 1] = needle[j]

\* s.split(/\s+/).length: one piece more than there are maximal runs of
\* whitespace; the empty pieces before a leading run and after a trailing run
\* are counted.
splitLength(s) ==
  1 + Cardinality({i \in 1..Len(s) :
        s[i] \in WhiteSpace /\ (i = 1 \/ s[i - 1] \notin WhiteSpace)})

\* s.split(/\s+/).filter(word => word.length > 0).length: the maximal runs of
\* characters that are not whitespace.
splitWordsLength(s) ==
  Cardinality({i \in 1..Len(s) :
    s[i] \notin WhiteSpace /\ (i = 1 \/ s[i - 1] \in WhiteSpace)})

\* The positions of c in s.
Positions(s, c) == {i \in 1..Len(s) : s[i] = c}

\* Is position i of s inside a match of /<[^>]*>/g?  A match starts at the
\* first "<" after the previous match and runs to the next ">"; a "<" with no
\* ">" after it matches nothing.
InTag(s, lt, gt, i) ==
  /\ \E k \in gt : k >= i
  /\ \E j \in lt : j <= i /\ \A k \in gt : ~(j <= k /\ k < i)

\* content.replace(/<[^>]*>/g, '')
stripTags(s) ==
  LET lt   == Positions(s, "<")
      gt   == Positions(s, ">")
      kept == SelectSeq([i \in 1..Len(s) |-> i],
                        LAMBDA i : ~InTag(s, lt, gt, i))
  IN  [k \in 1..Len(kept) |-> s[kept[k]]]

\* The regular expressions that find tags, as the characters accepted at each
\* position after which [^>]*> follows; the i flag accepts both cases.
HeadingPattern == << {"<"}, {"h", "H"}, {"1", "2", "3", "4", "5", "6"} >>
ImagePattern   == << {"<"}, {"i", "I"}, {"m", "M"}, {"g", "G"} >>
LinkPattern    == << {"<"}, {"a", "A"} >>

\* Does the fixed part of the pattern match at position i of s?
matchAt(s, i, pattern) ==
  /\ i + Len(pattern) - 1 <= Len(s)
  /\ \A j \in 1..Len(pattern) : s[i + j - 1] \in pattern[j]

\* s.match(/<...[^>]*>/gi) || []: the matches in order, each as the pair of
\* its first and last position.  A match ends at the first ">" after the fixed
\* part, and the next one is searched after it.
match(s, pattern) ==
  LET gt     == Positions(s, ">")
      starts == {i \in Positions(s, "<") :
                   matchAt(s, i, pattern) /\ \E k \in gt : k >= i + Len(pattern)}
      end(i) == CHOOSE k \in gt :
                   k >= i + Len(pattern) /\ \A l \in gt : l >= i + Len(pattern) => k <= l
      first  == {i \in starts : \A j \in starts : j < i => end(j) < i}
      order  == SelectSeq([i \in 1..Len(s) |-> i], LAMBDA i : i \in first)
  IN  [n \in 1..Len(order) |-> SubSeq(s, order[n], end(order[n]))]

Alt      == <<"a", "l", "t", "=">>
EmptyAlt == <<"a", "l", "t", "=", "\"", "\"">>

\* img => !img.includes('alt=') || img.includes('alt=""')
missingAlt(img) == ~includes(img, Alt) \/ includes(img, EmptyAlt)

\* /^[a-z0-9-]+$/.test(slug)
slugPatternTest(slug) ==
  Len(slug) > 0 /\ \A i \in 1..Len(slug) : slug[i] \in Lower \cup Digit \cup {"-"}

\* Math.round(num / den) for num >= 0, den > 0.
MathRound(num, den) == (2 * num + den) \div (2 * den)

\* Math.min(100, score)
MathMin100(score) == IF score < 100 THEN score ELSE 100

\* ------------------------------------ analyzeSEO of the API (routes/seo.js)

\* An entry of analysis.issues or analysis.suggestions: the text and the number
\* interpolated into it (0 when there is none).
Entry(msg, n) == [msg |-> msg, n |-> n]

\* An entry of analysis.checks: the status and the numbers interpolated into
\* the message.  Absent stands for a key that was never assigned.
Check(status, n, total) == [status |-> status, n |-> n, total |-> total]
Absent == Check("absent", 0, 0)

\* const analysis = { score: 0, issues: [], suggestions: [], checks: {} }
NewAnalysis ==
  [score |-> 0, status |-> "", issues |-> <<>>, suggestions |-> <<>>,
   keywordDensity |-> <<>>,
   checks |-> [title |-> Absent, metaDescription |-> Absent, slug |-> Absent,
               content |-> Absent, wordCount |-> Absent, headings |-> Absent,
               images |-> Absent, links |-> Absent]]

\* Variant: a title of exactly TitleMin characters is still too short.
titleAnalysisStrict(a, title) ==
  IF Len(title) = 0
  THEN [a EXCEPT !.issues = Append(@, Entry("Title is missing", 0)),
                 !.checks.title = Check("error", 0, 0)]
  ELSE IF Len(title) <= TitleMin
  THEN [a EXCEPT !.issues = Append(@, Entry("Title is too short (recommended: 30-60 characters)", 0)),
                 !.checks.title = Check("warning", Len(title), 0)]
  ELSE IF Len(title) > TitleMax
  THEN [a EXCEPT !.issues = Append(@, Entry("Title is too long (recommended: 30-60 characters)", 0)),
                 !.checks.title = Check("warning", Len(title), 0)]
  ELSE [a EXCEPT !.score = @ + 20,
                 !.checks.title = Check("success", Len(title), 0)]

\* Title analysis
titleAnalysis(a, title) ==
  IF Len(title) = 0
  THEN [a EXCEPT !.issues = Append(@, Entry("Title is missing", 0)),
                 !.checks.title = Check("error", 0, 0)]
  ELSE IF Len(title) < TitleMin
  THEN [a EXCEPT !.issues = Append(@, Entry("Title is too short (recommended: 30-60 characters)", 0)),
                 !.checks.title = Check("warning", Len(title), 0)]
  ELSE IF Len(title) > TitleMax
  THEN [a EXCEPT !.issues = Append(@, Entry("Title is too long (recommended: 30-60 characters)", 0)),
                 !.checks.title = Check("warning", Len(title), 0)]
  ELSE [a EXCEPT !.score = @ + 20,
                 !.checks.title = Check("success", Len(title), 0)]

\* Meta description analysis
metaDescriptionAnalysis(a, metaDescription) ==
  IF Len(metaDescription) = 0
  THEN [a EXCEPT !.issues = Append(@, Entry("Meta description is missing", 0)),
                 !.checks.metaDescription = Check("error", 0, 0)]
  ELSE IF Len(metaDescription) < MetaMin
  THEN [a EXCEPT !.issues = Append(@, Entry("Meta description is too short (recommended: 120-160 characters)", 0)),
                 !.checks.metaDescription = Check("warning", Len(metaDescription), 0)]
  ELSE IF Len(metaDescription) > MetaMax
  THEN [a EXCEPT !.issues = Append(@, Entry("Meta description is too long (recommended: 120-160 characters)", 0)),
                 !.checks.metaDescription = Check("warning", Len(metaDescription), 0)]
  ELSE [a EXCEPT !.score = @ + 20,
                 !.checks.metaDescription = Check("success", Len(metaDescription), 0)]

\* Slug analysis
slugAnalysis(a, slug) ==
  IF Len(slug) = 0
  THEN [a EXCEPT !.issues = Append(@, Entry("URL slug is missing", 0)),
                 !.checks.slug = Check("error", 0, 0)]
  ELSE IF Len(slug) > SlugMax
  THEN [a EXCEPT !.issues = Append(@, Entry("URL slug is too long (recommended: under 75 characters)", 0)),
                 !.checks.slug = Check("warning", Len(slug), 0)]
  ELSE IF ~slugPatternTest(slug)
  THEN [a EXCEPT !.issues = Append(@, Entry("URL slug should only contain lowercase letters, numbers, and hyphens", 0)),
                 !.checks.slug = Check("warning", 0, 0)]
  ELSE [a EXCEPT !.score = @ + 15,
                 !.checks.slug = Check("success", 0, 0)]

\* Word count check
wordCountCheck(a, wordCount) ==
  IF wordCount < MinWords
  THEN [a EXCEPT !.issues = Append(@, Entry("Content is too short (recommended: 300+ words for SEO)", 0)),
                 !.checks.wordCount = Check("warning", wordCount, 0)]
  ELSE [a EXCEPT !.score = @ + 15,
                 !.checks.wordCount = Check("success", wordCount, 0)]

\* Heading structure check
headingsCheck(a, headingMatches) ==
  IF Len(headingMatches) = 0
  THEN [a EXCEPT !.suggestions = Append(@, Entry("Add headings (H1, H2, H3) to improve content structure", 0)),
                 !.checks.headings = Check("warning", 0, 0)]
  ELSE [a EXCEPT !.score = @ + 10,
                 !.checks.headings = Check("success", Len(headingMatches), 0)]

\* Image optimization check
imagesCheck(a, imageMatches) ==
  IF Len(imageMatches) > 0
  THEN LET imagesWithoutAlt == SelectSeq(imageMatches, missingAlt)
       IN  IF Len(imagesWithoutAlt) > 0
           THEN [a EXCEPT !.issues = Append(@, Entry("images missing alt text",
                                                     Len(imagesWithoutAlt))),
                          !.checks.images = Check("warning", Len(imagesWithoutAlt),
                                                  Len(imageMatches))]
           ELSE [a EXCEPT !.score = @ + 10,
                          !.checks.images = Check("success", Len(imageMatches), 0)]
  ELSE a

\* Internal linking check
linksCheck(a, linkMatches) ==
  IF Len(linkMatches) = 0
  THEN [a EXCEPT !.suggestions = Append(@, Entry("Add internal links to improve SEO and user experience", 0)),
                 !.checks.links = Check("info", 0, 0)]
  ELSE [a EXCEPT !.score = @ + 5,
                 !.checks.links = Check("success", Len(linkMatches), 0)]

\* Variant: empty content is analysed like any other content.
contentAnalysisAlways(a, content) ==
  LET wordCount      == splitLength(content)
      headingMatches == match(content, HeadingPattern)
      imageMatches   == match(content, ImagePattern)
      linkMatches    == match(content, LinkPattern)
  IN  linksCheck(imagesCheck(headingsCheck(wordCountCheck(a, wordCount),
        headingMatches), imageMatches), linkMatches)

\* Content analysis
contentAnalysis(a, content) ==
  IF Len(content) = 0
  THEN [a EXCEPT !.issues = Append(@, Entry("Content is missing", 0)),
                 !.checks.content = Check("error", 0, 0)]
  ELSE LET wordCount      == splitLength(content)
           headingMatches == match(content, HeadingPattern)
           imageMatches   == match(content, ImagePattern)
           linkMatches    == match(content, LinkPattern)
       IN  linksCheck(imagesCheck(headingsCheck(wordCountCheck(a, wordCount),
             headingMatches), imageMatches), linkMatches)

\* Variant: the bands start one point higher.
overallStatusShifted(score) ==
  IF score > 80 THEN "excellent"
  ELSE IF score > 60 THEN "good"
  ELSE IF score > 40 THEN "needs-improvement"
  ELSE "poor"

\* Determine overall status
overallStatus(score) ==
  IF score >= 80 THEN "excellent"
  ELSE IF score >= 60 THEN "good"
  ELSE IF score >= 40 THEN "needs-improvement"
  ELSE "poor"

\* s.toLowerCase()
toLowerCaseAll(s) == [i \in 1..Len(s) |-> toLowerCase(s[i])]

\* s.split(/\s+/) without its empty pieces: the maximal runs of characters
\* that are not whitespace, as a set.
splitWords(s) ==
  LET starts == {i \in 1..Len(s) :
                   s[i] \notin WhiteSpace /\ (i = 1 \/ s[i - 1] \in WhiteSpace)}
      end(i) == CHOOSE k \in i..Len(s) :
                   /\ \A j \in i..k : s[j] \notin WhiteSpace
                   /\ (k = Len(s) \/ s[k + 1] \in WhiteSpace)
  IN  {SubSeq(s, i, end(i)) : i \in starts}

\* \w of the regular expressions.
IsWordChar(ch) == ch \in Upper \cup Lower \cup Digit \cup {"_"}

\* The characters of a title word that are regular-expression syntax when the
\* word is interpolated into a pattern: of the characters the model uses,
\* the parentheses.
GroupOpen  == "("
GroupClose == ")"

\* new RegExp(`\\b${word}\\b`, 'gi') throws a SyntaxError when the word's
\* parentheses do not pair up (unterminated group, unmatched ')').
RegExpThrows(word) ==
  LET opens(i)  == Cardinality({j \in 1..i : word[j] = GroupOpen})
      closes(i) == Cardinality({j \in 1..i : word[j] = GroupClose})
  IN  \/ \E i \in 1..Len(word) : closes(i) > opens(i)
      \/ opens(Len(word)) # closes(Len(word))

\* The characters the compiled pattern matches literally: the groups only
\* capture.
RegExpLiteral(word) ==
  SelectSeq(word, LAMBDA ch : ch \notin {GroupOpen, GroupClose})

\* (contentLower.match(new RegExp(`\\b${word}\\b`, 'gi')) || []).length for a
\* word holding a character besides parentheses: the places where the literal
\* characters stand between two word boundaries (a word character on exactly
\* one side).
regexMatches(contentLower, word) ==
  LET lit == RegExpLiteral(word)
      n   == Len(lit)
      wordCharAt(k) ==
        k >= 1 /\ k <= Len(contentLower) /\ IsWordChar(contentLower[k])
  IN  Cardinality({i \in 1..(Len(contentLower) - n + 1) :
        /\ wordCharAt(i - 1) # IsWordChar(lit[1])
        /\ wordCharAt(i + n) # IsWordChar(lit[n])
        /\ \A j \in 1..n : contentLower[i + j - 1] = lit[j]})

\* ((num / den) * 100).toFixed(2): the percentage rounded to hundredths, as
\* its decimal digits.
toFixed2(num, den) ==
  LET h == MathRound(num * 10000, den)
  IN  NumToString(h \div 100) \o <<".">>
        \o <<DigitChar((h \div 10) % 10), DigitChar(h % 10)>>

\* The title words the keyword density analysis looks at.
keywords(title) == {word \in splitWords(toLowerCaseAll(title)) : Len(word) > 3}

\* Keyword density analysis (basic)
keywordDensity(a, title, content) ==
  IF Len(title) > 0 /\ Len(content) > 0
  THEN LET contentLower == toLowerCaseAll(content)
           total        == splitLength(content)
       IN  [a EXCEPT !.keywordDensity =
             [word \in keywords(title) |->
                LET matches == regexMatches(contentLower, word)
                IN  [count |-> matches, density |-> toFixed2(matches, total)]]]
  ELSE a

\* The call ends in the SyntaxError of new RegExp.
Thrown == [status |-> "SyntaxError"]

analyzeSEOThrows(content, title) ==
  /\ Len(title) > 0
  /\ Len(content) > 0
  /\ \E word \in keywords(title) : RegExpThrows(word)

\* analyzeSEO(content, title, metaDescription, slug): the score, status,
\* issues, suggestions, checks and keyword densities of the analysis, or the
\* exception thrown.
analyzeSEO(content, title, metaDescription, slug) ==
  IF analyzeSEOThrows(content, title) THEN Thrown
  ELSE LET a == keywordDensity(
                  contentAnalysis(slugAnalysis(metaDescriptionAnalysis(
                    titleAnalysis(NewAnalysis, title), metaDescription), slug),
                    content),
                  title, content)
           score == MathMin100(a.score)
       IN  [a EXCEPT !.score = score, !.status = overallStatus(score)]

\* --------------------------------- SEOAnalyzer of the editor (SEOAnalyzer.tsx)

\* An SEOCheck: id, status, the number interpolated into the message, score.
SEOCheck(id, status, n, score) ==
  [id |-> id, status |-> status, n |-> n, score |-> score]

\* Title checks
uiTitleCheck(title) ==
  IF Len(title) = 0 THEN SEOCheck("title-missing", "error", 0, 0)
  ELSE IF Len(title) < TitleMin THEN SEOCheck("title-short", "warning", Len(title), 5)
  ELSE IF Len(title) > TitleMax THEN SEOCheck("title-long", "warning", Len(title), 5)
  ELSE SEOCheck("title-good", "success", Len(title), 10)

\* Meta description checks
uiMetaCheck(metaDescription) ==
  IF Len(metaDescription) = 0 THEN SEOCheck("meta-missing", "error", 0, 0)
  ELSE IF Len(metaDescription) < MetaMin
  THEN SEOCheck("meta-short", "warning", Len(metaDescription), 5)
  ELSE IF Len(metaDescription) > MetaMax
  THEN SEOCheck("meta-long", "warning", Len(metaDescription), 5)
  ELSE SEOCheck("meta-good", "success", Len(metaDescription), 10)

\* Content length checks
uiContentCheck(wordCount) ==
  IF wordCount < MinWords THEN SEOCheck("content-short", "warning", wordCount, 5)
  ELSE SEOCheck("content-good", "success", wordCount, 10)

\* Slug checks
uiSlugCheck(slug) ==
  IF Len(slug) = 0 THEN SEOCheck("slug-missing", "error", 0, 0)
  ELSE IF Len(slug) > UiSlugMax THEN SEOCheck("slug-long", "warning", 0, 5)
  ELSE SEOCheck("slug-good", "success", 0, 10)

\* Variant: a missing featured image scores nothing.
uiImageCheckZero(featuredImage) ==
  IF featuredImage # "" THEN SEOCheck("image-present", "success", 0, 10)
  ELSE SEOCheck("image-missing", "warning", 0, 0)

\* Featured image check
uiImageCheck(featuredImage) ==
  IF featuredImage # "" THEN SEOCheck("image-present", "success", 0, 10)
  ELSE SEOCheck("image-missing", "warning", 0, 5)

\* Tags check
uiTagsCheck(tags) ==
  IF Len(tags) = 0 THEN SEOCheck("tags-missing", "warning", 0, 5)
  ELSE IF Len(tags) > MaxTags THEN SEOCheck("tags-many", "warning", 0, 7)
  ELSE SEOCheck("tags-good", "success", Len(tags), 10)

\* Headings check
uiHeadingsCheck(content) ==
  LET headingMatches == match(content, HeadingPattern)
  IN  IF Len(headingMatches) = 0 THEN SEOCheck("headings-missing", "warning", 0, 5)
      ELSE SEOCheck("headings-present", "success", Len(headingMatches), 10)

RECURSIVE SumScores(_)
\* totalScore: the scores of the checks, added up as they are pushed.
SumScores(checks) ==
  IF checks = <<>> THEN 0 ELSE checks[1].score + SumScores(Tail(checks))

\* Variant: the maximum counts 5 points for each check.
maxScoreHalf(checks) == Len(checks) * 5

\* const maxScore = checks.length * 10
maxScore(checks) == Len(checks) * 10

\* getScoreStatus(score)
getScoreStatus(score) ==
  IF score >= 80 THEN "Excellent"
  ELSE IF score >= 60 THEN "Good"
  ELSE IF score >= 40 THEN "Needs Improvement"
  ELSE "Poor"

\* useState(0), useState([]): the component before its effect has run.
Unanalysed == [seoScore |-> 0, checks |-> <<>>, wordCount |-> 0]

\* The component's analyzeSEO(): the state it sets from the props.
SEOAnalyzer(title, content, metaDescription, slug, featuredImage, tags) ==
  LET plainContent == stripTags(content)
      wordCount    == splitWordsLength(plainContent)
      checks       == << uiTitleCheck(title), uiMetaCheck(metaDescription),
                         uiContentCheck(wordCount), uiSlugCheck(slug),
                         uiImageCheck(featuredImage), uiTagsCheck(tags),
                         uiHeadingsCheck(content) >>
      totalScore   == SumScores(checks)
      finalScore   == MathRound(totalScore * 100, maxScore(checks))
  IN  [seoScore |-> finalScore, checks |-> checks, wordCount |-> wordCount]

\* ------------------------------------------------------ the analysed posts

\* A post body: `words` words, a heading tag, <img> tags and a link, separated
\* by single spaces.
HeadingKinds == {"none", "h2", "H1"}
ImgKinds     == {"noalt", "emptyalt", "alt", "ALT"}
LinkKinds    == {"none", "href"}

HeadingTag(kind) ==
  IF kind = "h2" THEN <<"<", "h", "2", ">">>                \* <h2>
  ELSE <<"<", "H", "1", ">">>                               \* <H1>

ImgTag(kind) ==
  IF kind = "noalt" THEN <<"<", "i", "m", "g", ">">>        \* <img>
  ELSE IF kind = "emptyalt"                                 \* <img alt="">
  THEN <<"<", "i", "m", "g", " ", "a", "l", "t", "=", "\"", "\"", ">">>
  ELSE IF kind = "alt"                                      \* <img alt="x">
  THEN <<"<", "i", "m", "g", " ", "a", "l", "t", "=", "\"", "x", "\"", ">">>
  ELSE <<"<", "I", "M", "G", " ", "A", "L", "T", "=", "\"", "x", "\"", ">">>
                                                            \* <IMG ALT="x">

\* <a href="x">
LinkTag == <<"<", "a", " ", "h", "r", "e", "f", "=", "\"", "x", "\"", ">">>

\* n words: "w w ... w"
Words(n) == [i \in 1..(2 * n - 1) |-> IF i % 2 = 1 THEN "w" ELSE " "]

Pieces(doc) ==
  (IF doc.heading = "none" THEN <<>> ELSE <<HeadingTag(doc.heading)>>)
  \o (IF doc.words = 0 THEN <<>> ELSE <<Words(doc.words)>>)
  \o [i \in 1..Len(doc.imgs) |-> ImgTag(doc.imgs[i])]
  \o (IF doc.link = "none" THEN <<>> ELSE <<LinkTag>>)

RECURSIVE Join(_)
Join(pieces) ==
  IF pieces = <<>> THEN <<>>
  ELSE IF Len(pieces) = 1 THEN pieces[1]
  ELSE pieces[1] \o <<" ">> \o Join(Tail(pieces))

\* The HTML of a post body.
Render(doc) == Join(Pieces(doc))

\* The <img> tags of the body whose alt text is missing or empty.
MissingAlt(doc) == {i \in 1..Len(doc.imgs) : doc.imgs[i] \in {"noalt", "emptyalt"}}

\* A new post with nothing filled in, and a post that follows every
\* recommendation.
Blank ==
  [doc |-> [words |-> 0, heading |-> "none", imgs |-> <<>>, link |-> "none"],
   title |-> <<>>, metaDescription |-> <<>>, slug |-> <<>>,
   featuredImage |-> "", tags |-> <<>>]

WellFormed ==
  [doc |-> [words |-> MinWords, heading |-> "h2", imgs |-> <<"alt">>,
            link |-> "href"],
   title |-> Str(TitleMin, "o"), metaDescription |-> Str(MetaMin, "o"),
   slug |-> <<"f", "o", "o", "-", "1">>,
   featuredImage |-> "cover.png", tags |-> <<"seo">>]

\* The values tried for each field: both sides of every threshold.
TitleInputs == {Str(n, "o") : n \in {0, TitleMin - 1, TitleMin, TitleMax, TitleMax + 1}}
MetaInputs  == {Str(n, "o") : n \in {0, MetaMin - 1, MetaMin, MetaMax, MetaMax + 1}}
SlugInputs  ==
  {Str(n, "o") : n \in {0, UiSlugMax, UiSlugMax + 1, SlugMax, SlugMax + 1}}
    \cup { <<"f", "o", "o", "-", "1">>, <<"F", "o", "o">>, <<"f", "o", " ", "o">> }
ImageInputs == {"", "cover.png"}
TagInputs   == {Str(n, "seo") : n \in {0, 1, MaxTags, MaxTags + 1}}
WordInputs  == {0, 1, MinWords - 1, MinWords}
ImgInputs   == UNION {[1..n -> ImgKinds] : n \in 0..MaxImgs}

\* The posts that differ from p in at most one field.
Vary(p) ==
  {[p EXCEPT !.title = t] : t \in TitleInputs}
    \cup {[p EXCEPT !.metaDescription = m] : m \in MetaInputs}
    \cup {[p EXCEPT !.slug = s] : s \in SlugInputs}
    \cup {[p EXCEPT !.featuredImage = f] : f \in ImageInputs}
    \cup {[p EXCEPT !.tags = g] : g \in TagInputs}
    \cup {[p EXCEPT !.doc.words = n] : n \in WordInputs}
    \cup {[p EXCEPT !.doc.heading = h] : h \in HeadingKinds}
    \cup {[p EXCEPT !.doc.imgs = i] : i \in ImgInputs}
    \cup {[p EXCEPT !.doc.link = l] : l \in LinkKinds}

\* The analysed posts: the blank and the well-formed post with up to two
\* fields changed.
SeoPosts == UNION {Vary(q) : q \in UNION {Vary(p) : p \in {Blank, WellFormed}}}

\* No analysis has been answered.
NoAnalysis == [status |-> "none"]

\* The form of the editor holding post p, before any analysis.
Form(p) ==
  [doc |-> p.doc, title |-> p.title, content |-> Render(p.doc),
   metaDescription |-> p.metaDescription, slug |-> p.slug,
   featuredImage |-> p.featuredImage, tags |-> p.tags,
   analysis |-> NoAnalysis, analyzer |-> Unanalysed]

\* ======================================================= the stored posts

\* The concurrently served requests.
Procs == {"r1", "r2"}

\* Post ids (cuid strings in the code); 0 stands for null / absent.
PostIds == 1..MaxPosts
NoId == 0

\* Dates are instants counted from 1; 0 stands for null / absent.
NoDate == 0
FirstInstant == 1

VARIABLES
  posts,   \* the posts table: id -> [title, slug] and, where the handlers
           \* modelled use them, status, publishedAt, authorId, viewCount
  nextId,  \* the next fresh post id
  req,     \* per request: the handler's locals, its response and the error
           \* its catch block wrote to the console
  seo,     \* the post form under analysis and the reports of the two scorers
  db,      \* the other tables (tags, post tags, post analytics, backups,
           \* comments) and the files of the backups directory
  now,     \* the clock
  res      \* the response to the last request that was served in one step

vars == <<posts, nextId, req, seo, db, now, res>>

\* The tables are empty and nothing has been answered.
EmptyDb ==
  [tags |-> {}, postTags |-> {}, postAnalytics |-> {}, backups |-> << >>,
   files |-> {}, comments |-> << >>, cuids |-> 0]
NoRes == [op |-> "none"]

cmsVars == <<db, now, res>>

Idle ==
  [op |-> "idle", pc |-> "idle", title |-> <<>>, postId |-> NoId,
   baseSlug |-> <<>>, slug |-> <<>>, counter |-> 0,
   status |-> 0, code |-> "", isUnique |-> FALSE, logged |-> ""]

Init ==
  /\ posts = << >>
  /\ nextId = 1
  /\ req = [r \in Procs |-> Idle]
  /\ seo = Form(Blank)
  /\ db = EmptyDb
  /\ now = FirstInstant
  /\ res = NoRes

\* ------------------------------------------------------------ persistence

\* prisma.post.findUnique({ where: { slug }, select: { id: true } }): the id of
\* the row holding the slug, or null.
findUniqueBySlug(slug) ==
  IF \E i \in DOMAIN posts : posts[i].slug = slug
  THEN CHOOSE i \in DOMAIN posts : posts[i].slug = slug
  ELSE NoId

\* Variant: the table has no unique index on slug.
slugUniqueOkNoIndex(id, slug) == TRUE

\* The unique index on Post.slug: may a row `id` (NoId for an insert) take `slug`?
slugUniqueOk(id, slug) ==
  \A i \in DOMAIN posts : posts[i].slug = slug => i = id

\* ----------------------------------------------------------- the allocator

\* Variant: the exit test ignores the exclude id.
probeFreeNoExclude(existingId, postId) == existingId = NoId

\* The loop's exit test: !existingPost || (postId && existingPost.id === postId)
probeFree(existingId, postId) ==
  existingId = NoId \/ (postId # NoId /\ existingId = postId)

\* Variant: the counter is incremented before the candidate is formatted.
nextCandidateSkips(q) ==
  [q EXCEPT !.slug = Suffixed(q.baseSlug, q.counter + 1), !.counter = q.counter + 1]

\* Variant: the counter is never incremented.
nextCandidateStuck(q) ==
  [q EXCEPT !.slug = Suffixed(q.baseSlug, q.counter)]

\* slug = `${baseSlug}-${counter}`; counter++
nextCandidate(q) ==
  [q EXCEPT !.slug = Suffixed(q.baseSlug, q.counter), !.counter = q.counter + 1]

\* Room for one more creation within n rows, counting the creations in flight.
CreatesInFlight == Cardinality({r \in Procs : req[r].op = "create" /\ req[r].pc # "done"})
Room(n) == Cardinality(DOMAIN posts) + CreatesInFlight < n

\* A sent response: the handler has returned and only the response remains.
Response(op, status, code, slug, isUnique) ==
  [Idle EXCEPT !.op = op, !.pc = "done", !.status = status, !.code = code,
               !.slug = slug, !.isUnique = isUnique]

\* ------------------------------------------------------- POST /api/posts

\* The request passes validation; generateUniqueSlug(title) is entered: the
\* base slug is computed and the first findUnique is awaited.
CreatePostStart(r, t) ==
  /\ req[r].pc = "idle"
  /\ req' = [req EXCEPT ![r] =
       [Idle EXCEPT !.op = "create", !.pc = "probe", !.title = t,
                    !.postId = NoId, !.baseSlug = slugify(t),
                    !.slug = slugify(t), !.counter = 1]]
  /\ UNCHANGED <<posts, nextId, seo, cmsVars>>

\* Variant: the catch block re-enters the allocation instead of answering.
createCatchRetry(r, error) ==
  req' = [req EXCEPT ![r].pc = "probe", ![r].slug = req[r].baseSlug,
                     ![r].counter = 1]

\* catch (error) { console.error(...); res.status(500).json({ code:
\* 'CREATE_POST_ERROR' }) }: the error is logged and answered, nothing is retried.
createCatch(r, error) ==
  req' = [req EXCEPT ![r] =
    [Response("create", 500, "CREATE_POST_ERROR", <<>>, FALSE)
       EXCEPT !.logged = error]]

\* prisma.post.create under the unique index on slug, then the response; a
\* violation of the index throws into the catch block (500, no retry).
CreatePostPersist(r) ==
  /\ req[r].op = "create"
  /\ req[r].pc = "persist"
  /\ IF slugUniqueOk(NoId, req[r].slug)
     THEN /\ posts' = [i \in DOMAIN posts \cup {nextId} |->
                        IF i = nextId
                        THEN [title |-> req[r].title, slug |-> req[r].slug]
                        ELSE posts[i]]
          /\ nextId' = nextId + 1
          /\ req' = [req EXCEPT ![r] =
               [Response("create", 201, "", req[r].slug, FALSE)
                  EXCEPT !.postId = nextId]]
     ELSE /\ createCatch(r, "P2002")
          /\ UNCHANGED <<posts, nextId>>
  /\ UNCHANGED <<seo, cmsVars>>

\* ---------------------------------------------------- PUT /api/posts/:id

\* Variant: the slug is regenerated on every update.
titleChangedAlways(title, storedTitle) == TRUE

\* if (title !== existingPost.title)
titleChanged(title, storedTitle) == title # storedTitle

\* The request passes validation; the post is looked up by id.  A missing
\* post answers 404.  Otherwise the slug is kept when the title is the stored
\* one, and generateUniqueSlug(title, id) is entered when it changed.
UpdatePostStart(r, id, t) ==
  /\ req[r].pc = "idle"
  /\ IF id \notin DOMAIN posts
     THEN req' = [req EXCEPT ![r] =
            Response("update", 404, "POST_NOT_FOUND", <<>>, FALSE)]
     ELSE IF titleChanged(t, posts[id].title)
     THEN req' = [req EXCEPT ![r] =
            [Idle EXCEPT !.op = "update", !.pc = "probe", !.title = t,
                         !.postId = id,
                         !.baseSlug = slugify(t), !.slug = slugify(t),
                         !.counter = 1]]
     ELSE req' = [req EXCEPT ![r] =
            [Idle EXCEPT !.op = "update", !.pc = "persist", !.title = t,
                         !.postId = id, !.slug = posts[id].slug]]
  /\ UNCHANGED <<posts, nextId, seo, cmsVars>>

\* prisma.post.update under the unique index on slug, then the response.
UpdatePostPersist(r) ==
  /\ req[r].op = "update"
  /\ req[r].pc = "persist"
  /\ IF slugUniqueOk(req[r].postId, req[r].slug)
     THEN /\ posts' = [posts EXCEPT ![req[r].postId] =
                        [title |-> req[r].title, slug |-> req[r].slug]]
          /\ req' = [req EXCEPT ![r] =
               [Response("update", 200, "", req[r].slug, FALSE)
                  EXCEPT !.postId = req[r].postId]]
     ELSE /\ req' = [req EXCEPT ![r] =
               [Response("update", 500, "UPDATE_POST_ERROR", <<>>, FALSE)
                  EXCEPT !.logged = "P2002"]]
          /\ UNCHANGED posts
  /\ UNCHANGED <<nextId, seo, cmsVars>>

\* ---------------------------------------------------- generateUniqueSlug

\* One iteration of the while(true) loop for a create or update request: the
\* findUnique, then the break (the caller goes on to persist) or the next
\* candidate.
GenerateUniqueSlugProbe(r) ==
  /\ req[r].op \in {"create", "update"}
  /\ req[r].pc = "probe"
  /\ req' = [req EXCEPT ![r] =
       IF probeFree(findUniqueBySlug(req[r].slug), req[r].postId)
       THEN [req[r] EXCEPT !.pc = "persist"]
       ELSE nextCandidate(req[r])]
  /\ UNCHANGED <<posts, nextId, seo, cmsVars>>

\* ------------------------------------------- POST /api/seo/generate-slug

GenerateSlugStart(r, t, postId) ==
  /\ req[r].pc = "idle"
  /\ req' = [req EXCEPT ![r] =
       [Idle EXCEPT !.op = "genslug", !.pc = "probe", !.title = t,
                    !.postId = postId, !.baseSlug = slugifySeo(t),
                    !.slug = slugifySeo(t), !.counter = 1]]
  /\ UNCHANGED <<posts, nextId, seo, cmsVars>>

\* Variant: the flag tests the counter against 0.
isUniqueFlagZero(counter) == counter = 0

\* isUnique: counter === 1
isUniqueFlag(counter) == counter = 1

\* Variant: the endpoint reserves the slug it answers by inserting a row.
GenerateSlugProbeReserving(r) ==
  /\ req[r].op = "genslug"
  /\ req[r].pc = "probe"
  /\ IF probeFree(findUniqueBySlug(req[r].slug), req[r].postId)
     THEN /\ req' = [req EXCEPT ![r] =
               Response("genslug", 200, "", req[r].slug, req[r].counter = 1)]
          /\ posts' = [i \in DOMAIN posts \cup {nextId} |->
                        IF i = nextId
                        THEN [title |-> req[r].title, slug |-> req[r].slug]
                        ELSE posts[i]]
          /\ nextId' = nextId + 1
     ELSE /\ req' = [req EXCEPT ![r] = nextCandidate(req[r])]
          /\ UNCHANGED <<posts, nextId>>
  /\ UNCHANGED <<seo, cmsVars>>

\* One iteration of the endpoint's own while(true) loop; on the break the
\* response { slug, isUnique } is sent.
GenerateSlugProbe(r) ==
  /\ req[r].op = "genslug"
  /\ req[r].pc = "probe"
  /\ req' = [req EXCEPT ![r] =
       IF probeFree(findUniqueBySlug(req[r].slug), req[r].postId)
       THEN Response("genslug", 200, "", req[r].slug,
                     isUniqueFlag(req[r].counter))
       ELSE nextCandidate(req[r])]
  /\ UNCHANGED <<posts, nextId, seo, cmsVars>>

\* --------------------------------------------------------- failure, reuse

ErrorCode(op) ==
  IF op = "update" THEN "UPDATE_POST_ERROR" ELSE "GENERATE_SLUG_ERROR"

\* A findUnique of the probe loop rejects (the database is unreachable): the
\* handler's catch block answers 500 and the allocation is abandoned.
ProbeFails(r) ==
  /\ req[r].pc = "probe"
  /\ IF req[r].op = "create"
     THEN createCatch(r, "DB_UNREACHABLE")
     ELSE req' = [req EXCEPT ![r] =
            [Response(req[r].op, 500, ErrorCode(req[r].op), <<>>, FALSE)
               EXCEPT !.logged = "DB_UNREACHABLE"]]
  /\ UNCHANGED <<posts, nextId, seo, cmsVars>>

\* The response has been sent; the slot serves the next request.
Finish(r) ==
  /\ req[r].pc = "done"
  /\ req' = [req EXCEPT ![r] = Idle]
  /\ UNCHANGED <<posts, nextId, seo, cmsVars>>

\* ------------------------------------------------------- specifications

\* Requests interleave at their awaits.
Next ==
  \/ \E r \in Procs, t \in RaceTitles : Room(MaxRacePosts) /\ CreatePostStart(r, t)
  \/ \E r \in Procs : CreatePostPersist(r)
  \/ \E r \in Procs, id \in PostIds, t \in RaceTitles : UpdatePostStart(r, id, t)
  \/ \E r \in Procs : UpdatePostPersist(r)
  \/ \E r \in Procs : GenerateUniqueSlugProbe(r)
  \/ \E r \in Procs, t \in RaceTitles, postId \in PostIds \cup {NoId} :
       GenerateSlugStart(r, t, postId)
  \/ \E r \in Procs : GenerateSlugProbe(r)
  \/ \E r \in Procs : ProbeFails(r)
  \/ \E r \in Procs : Finish(r)

Spec == Init /\ [][Next]_vars

\* One request at a time: a single slot serves every request, each running to
\* its response before the next one starts.
Serial == {"r1"}

NextSeq ==
  \/ \E r \in Serial, t \in Titles : Room(MaxPosts) /\ CreatePostStart(r, t)
  \/ \E r \in Serial : CreatePostPersist(r)
  \/ \E r \in Serial, id \in PostIds, t \in Titles : UpdatePostStart(r, id, t)
  \/ \E r \in Serial : UpdatePostPersist(r)
  \/ \E r \in Serial : GenerateUniqueSlugProbe(r)
  \/ \E r \in Serial, t \in Titles, postId \in PostIds \cup {NoId} :
       GenerateSlugStart(r, t, postId)
  \/ \E r \in Serial : GenerateSlugProbe(r)
  \/ \E r \in Serial : ProbeFails(r)
  \/ \E r \in Serial : Finish(r)

SpecSeq == Init /\ [][NextSeq]_vars

\* ------------------------------------------------------------- SEO analysis

otherVars == <<posts, nextId, req, cmsVars>>

\* analyzeSEO is applied to the form.
AnalyzeSEO ==
  /\ seo.analysis.status = "none"
  /\ seo' = [seo EXCEPT !.analysis =
               analyzeSEO(seo.content, seo.title, seo.metaDescription, seo.slug)]
  /\ UNCHANGED otherVars

\* The effect of the SEOAnalyzer component runs on the form.
SEOAnalyzerEffect ==
  /\ seo.analyzer.checks = <<>>
  /\ seo' = [seo EXCEPT !.analyzer =
               SEOAnalyzer(seo.title, seo.content, seo.metaDescription,
                           seo.slug, seo.featuredImage, seo.tags)]
  /\ UNCHANGED otherVars

\* The scorers applied to each of the analysed posts.
InitSeo ==
  /\ posts = << >>
  /\ nextId = 1
  /\ req = [r \in Procs |-> Idle]
  /\ \E p \in SeoPosts : seo = Form(p)
  /\ db = EmptyDb
  /\ now = FirstInstant
  /\ res = NoRes

NextSeo ==
  \/ AnalyzeSEO
  \/ SEOAnalyzerEffect

SpecSeo == InitSeo /\ [][NextSeo]_vars

\* ------------------------------------------------- POST /api/seo/analyze

\* A body field that was not sent.
Undefined == <<"undefined">>

\* notEmpty() of the validators
notEmpty(field) == field # Undefined /\ field # <<>>

\* The value a falsy field (undefined or '') has in the tests !field,
\* field.length and field || ...: none.
orEmpty(field) == IF notEmpty(field) THEN field ELSE <<>>

\* Variant: the default slug is looked up in the posts table and suffixed
\* while it is taken.
finalSlugUnique(slug, title) ==
  IF notEmpty(slug) THEN slug
  ELSE IF findUniqueBySlug(slugify(title)) = NoId THEN slugify(title)
  ELSE Suffixed(slugify(title), Cardinality(DOMAIN posts))

\* const finalSlug = slug || slugify(title, { lower: true, strict: true })
finalSlug(slug, title) == IF notEmpty(slug) THEN slug ELSE slugify(title)

\* The answer of the endpoint to `body`.
AnalyzeResponse(body, status, code, analysis, generatedSlug) ==
  [op |-> "analyze", body |-> body, status |-> status, code |-> code,
   analysis |-> analysis, generatedSlug |-> generatedSlug]

\* The handler: validation (400), the default slug, the analysis (200), and
\* the catch block (500) when the analysis throws.
analyze(body) ==
  IF ~notEmpty(body.title) \/ ~notEmpty(body.content)
  THEN AnalyzeResponse(body, 400, "Validation failed", NoAnalysis, <<>>)
  ELSE LET slug == finalSlug(body.slug, body.title)
       IN  IF analyzeSEOThrows(body.content, body.title)
           THEN AnalyzeResponse(body, 500, "SEO_ANALYSIS_ERROR", NoAnalysis, <<>>)
           ELSE AnalyzeResponse(body, 200, "",
                  analyzeSEO(body.content, body.title,
                             orEmpty(body.metaDescription), slug),
                  slug)

PostAnalyze(body) ==
  /\ res' = analyze(body)
  /\ UNCHANGED <<posts, nextId, req, seo, db, now>>

\* The analysed bodies.  Titles with words of more and of less than four
\* characters, in both cases, with and without parentheses, and one that
\* slugify turns into the empty slug; a content of a
\* hundred words five of which are "hooks", and a short one; the optional
\* fields absent, empty and filled in.
ReactHooksGuide ==
  <<"R", "e", "a", "c", "t", " ", "H", "o", "o", "k", "s", " ",
    "G", "u", "i", "d", "e">>
HooksPart1 ==
  <<"H", "o", "o", "k", "s", " ", "(", "P", "a", "r", "t", " ", "1", ")">>
HooksGuideParen ==
  <<"H", "o", "o", "k", "s", " ", "(", "G", "u", "i", "d", "e", ")">>
TheFox == <<"T", "h", "e", " ", "F", "o", "x">>

Bangs == <<"!", "!", "!", "!">>

AnalyzeTitles ==
  {ReactHooksGuide, HooksPart1, HooksGuideParen, TheFox, Bangs, <<>>}

hooks == <<"h", "o", "o", "k", "s">>
Hooks == <<"H", "o", "o", "k", "s">>
HOOKS == <<"H", "O", "O", "K", "S">>

\* A hundred words: "hooks" is the 1st, 60th and 100th, "Hooks" the 20th and
\* "HOOKS" the 40th, the others are "w".
HundredWords ==
  hooks \o <<" ">> \o Words(18) \o <<" ">> \o Hooks \o <<" ">> \o Words(19)
    \o <<" ">> \o HOOKS \o <<" ">> \o Words(19) \o <<" ">> \o hooks \o <<" ">>
    \o Words(39) \o <<" ">> \o hooks

\* "a guide unhooks hooksy hooks"
ShortContent ==
  <<"a", " ", "g", "u", "i", "d", "e", " ", "u", "n", "h", "o", "o", "k", "s",
    " ", "h", "o", "o", "k", "s", "y", " ", "h", "o", "o", "k", "s">>

AnalyzeContents == {HundredWords, ShortContent, <<>>}
AnalyzeMetas == {Undefined, <<>>, Str(MetaMin, "o")}
AnalyzeSlugs == {Undefined, <<>>, <<"f", "o", "o", "-", "1">>}

AnalyzeBodies ==
  [title : AnalyzeTitles, content : AnalyzeContents,
   metaDescription : AnalyzeMetas, slug : AnalyzeSlugs]

NextScore == \E body \in AnalyzeBodies : PostAnalyze(body)

SpecScore == Init /\ [][NextScore]_vars

\* The scorer is called between the requests that write the posts table,
\* which are served one at a time.
MixedBodies ==
  [title : RaceTitles \cup {ReactHooksGuide}, content : {ShortContent},
   metaDescription : {Undefined},
   slug : {Undefined, <<"f", "o", "o", "-", "1">>}]

NextMixed ==
  \/ \E body \in MixedBodies : PostAnalyze(body)
  \/ \E r \in Serial, t \in RaceTitles : Room(MaxRacePosts) /\ CreatePostStart(r, t)
  \/ \E r \in Serial : CreatePostPersist(r)
  \/ \E r \in Serial, id \in PostIds, t \in RaceTitles : UpdatePostStart(r, id, t)
  \/ \E r \in Serial : UpdatePostPersist(r)
  \/ \E r \in Serial : GenerateUniqueSlugProbe(r)
  \/ \E r \in Serial : Finish(r)

SpecMixed == Init /\ [][NextMixed]_vars

\* ======================================== posts: status, authors and tags

\* The handlers of routes/posts.js with the status, the publication date,
\* the author, the view count and the tags of a post.  The requests are served
\* one at a time, and a step is a whole handler: every query it makes up to
\* its response.

\* Rows of the posts table, instants of the clock and views of a post.
MaxStored == 1
MaxNow == 2
MaxViews == 1

\* req.user: the users of the three roles, and no user (optionalAuth without
\* a token).
Admin  == [id |-> "admin", role |-> "ADMIN"]
Ann    == [id |-> "ann", role |-> "AUTHOR"]
Ed     == [id |-> "ed", role |-> "EDITOR"]
Users  == {Admin, Ann, Ed}
NoUser == [id |-> "", role |-> ""]

\* const isAdmin = req.user && req.user.role === 'ADMIN'
isAdmin(user) == user # NoUser /\ user.role = "ADMIN"

\* A body without status.
Unset == "undefined"

RECURSIVE uniqueSlugFrom(_, _, _, _)
\* The while(true) loop of generateUniqueSlug, run to its break.
uniqueSlugFrom(baseSlug, slug, counter, postId) ==
  IF probeFree(findUniqueBySlug(slug), postId) THEN slug
  ELSE uniqueSlugFrom(baseSlug, Suffixed(baseSlug, counter), counter + 1, postId)

\* generateUniqueSlug(title, postId)
generateUniqueSlug(title, postId) ==
  uniqueSlugFrom(slugify(title), slugify(title), 1, postId)

\* POST /: Set published date if status is PUBLISHED
createPublishedAt(status, scheduledAt) ==
  IF status = "PUBLISHED" THEN now
  ELSE IF status = "SCHEDULED" /\ scheduledAt # NoDate THEN scheduledAt
  ELSE NoDate

\* PUT /:id: Handle published date
updatePublishedAt(existingPost, status, scheduledAt) ==
  IF status = "PUBLISHED" /\ existingPost.status # "PUBLISHED" THEN now
  ELSE IF status = "SCHEDULED" /\ scheduledAt # NoDate THEN scheduledAt
  ELSE IF status # "PUBLISHED" /\ status # "SCHEDULED" THEN NoDate
  ELSE existingPost.publishedAt

\* The tag loop: the tag of each name is found or created by the slug of the
\* name, and its id is pushed to tagConnections.  A tag's id is its slug.
tagConnections(tags) == [i \in 1..Len(tags) |-> slugify(tags[i])]

\* prisma.postTag.createMany rejects rows that repeat the key (postId, tagId).
createManyThrows(connections) ==
  \E i, j \in 1..Len(connections) : i < j /\ connections[i] = connections[j]

\* Variant: EDITORs may modify any post.
insufficientPermissionsEditors(user, existingPost) ==
  user.role \notin {"ADMIN", "EDITOR"} /\ existingPost.authorId # user.id

\* req.user.role !== 'ADMIN' && existingPost.authorId !== req.user.id
insufficientPermissions(user, existingPost) ==
  user.role # "ADMIN" /\ existingPost.authorId # user.id

\* The response of a handler of routes/posts.js: the request it answers, the
\* status and code, and the ids of the posts in the body.
PostsResponse(op, user, id, status, code, ids) ==
  [op |-> op, user |-> user.id, postId |-> id, status |-> status,
   code |-> code, posts |-> ids]

\* POST /api/posts
CreatePost(user, title, status, scheduledAt, tags) ==
  LET st   == IF status = Unset THEN "DRAFT" ELSE status
      slug == generateUniqueSlug(title, NoId)
      post == [title |-> title, slug |-> slug, status |-> st,
               publishedAt |-> createPublishedAt(st, scheduledAt),
               authorId |-> user.id, viewCount |-> 0]
      connections == tagConnections(tags)
      created == [db EXCEPT !.tags = @ \cup {connections[i] : i \in DOMAIN connections}]
  IN  /\ nextId <= MaxStored
      /\ posts' = [i \in DOMAIN posts \cup {nextId} |->
                     IF i = nextId THEN post ELSE posts[i]]
      /\ nextId' = nextId + 1
      /\ IF createManyThrows(connections)
         THEN /\ db' = created
              /\ res' = PostsResponse("create", user, nextId, 500,
                                       "CREATE_POST_ERROR", {})
         ELSE /\ db' = [created EXCEPT !.postTags =
                          @ \cup {<<nextId, connections[i]>> : i \in DOMAIN connections}]
              /\ res' = PostsResponse("create", user, nextId, 201, "", {nextId})
      /\ UNCHANGED <<req, seo, now>>

\* The queries of PUT /:id that may reject (the database is unreachable).
Failures == {"none", "post.update", "tag.findUnique"}

\* PUT /api/posts/:id
UpdatePost(user, id, title, status, scheduledAt, tags, fail) ==
  IF id \notin DOMAIN posts
  THEN /\ res' = PostsResponse("update", user, id, 404, "POST_NOT_FOUND", {})
       /\ UNCHANGED <<posts, nextId, req, seo, db, now>>
  ELSE IF insufficientPermissions(user, posts[id])
  THEN /\ res' = PostsResponse("update", user, id, 403,
                                "INSUFFICIENT_PERMISSIONS", {})
       /\ UNCHANGED <<posts, nextId, req, seo, db, now>>
  ELSE IF fail = "post.update"
  THEN /\ res' = PostsResponse("update", user, id, 500, "UPDATE_POST_ERROR", {})
       /\ UNCHANGED <<posts, nextId, req, seo, db, now>>
  ELSE
    LET existingPost == posts[id]
        slug == IF title # existingPost.title
                THEN generateUniqueSlug(title, id) ELSE existingPost.slug
        publishedAt == updatePublishedAt(existingPost, status, scheduledAt)
        connections == tagConnections(tags)
        \* prisma.postTag.deleteMany({ where: { postId: id } })
        deleted == [db EXCEPT !.postTags = {l \in @ : l[1] # id}]
        created == [deleted EXCEPT
                      !.tags = @ \cup {connections[i] : i \in DOMAIN connections}]
    IN  /\ posts' = [posts EXCEPT ![id] =
                       [@ EXCEPT !.title = title, !.slug = slug,
                                 !.status = IF status = Unset THEN @ ELSE status,
                                 !.publishedAt = publishedAt]]
        /\ IF Len(tags) > 0 /\ fail = "tag.findUnique"
           THEN /\ db' = deleted
                /\ res' = PostsResponse("update", user, id, 500,
                                         "UPDATE_POST_ERROR", {})
           ELSE IF createManyThrows(connections)
           THEN /\ db' = created
                /\ res' = PostsResponse("update", user, id, 500,
                                         "UPDATE_POST_ERROR", {})
           ELSE /\ db' = [created EXCEPT !.postTags =
                            @ \cup {<<id, connections[i]>> : i \in DOMAIN connections}]
                /\ res' = PostsResponse("update", user, id, 200, "", {id})
        /\ UNCHANGED <<nextId, req, seo, now>>

\* DELETE /api/posts/:id; the post's tag links, analytics and comments go with
\* it (onDelete: Cascade).
DeletePost(user, id) ==
  IF id \notin DOMAIN posts
  THEN /\ res' = PostsResponse("delete", user, id, 404, "POST_NOT_FOUND", {})
       /\ UNCHANGED <<posts, nextId, req, seo, db, now>>
  ELSE IF insufficientPermissions(user, posts[id])
  THEN /\ res' = PostsResponse("delete", user, id, 403,
                                "INSUFFICIENT_PERMISSIONS", {})
       /\ UNCHANGED <<posts, nextId, req, seo, db, now>>
  ELSE /\ posts' = [i \in DOMAIN posts \ {id} |-> posts[i]]
       /\ db' = [db EXCEPT
                   !.postTags = {l \in @ : l[1] # id},
                   !.postAnalytics = {a \in @ : a.postId # id},
                   !.comments = [c \in {k \in DOMAIN @ : @[k].postId # id} |-> @[c]]]
       /\ res' = PostsResponse("delete", user, id, 200, "", {})
       /\ UNCHANGED <<nextId, req, seo, now>>

\* where.status = 'PUBLISHED'; where.publishedAt = { lte: new Date() }: a null
\* publishedAt matches no lte filter.
listedToOthers(post) ==
  post.status = "PUBLISHED" /\ post.publishedAt # NoDate /\ post.publishedAt <= now

\* GET /api/posts with the status of the query ('PUBLISHED' when absent)
GetPosts(user, status) ==
  /\ res' = PostsResponse("list", user, NoId, 200, "",
       {i \in DOMAIN posts :
          IF ~isAdmin(user) THEN listedToOthers(posts[i])
          ELSE status = "ALL" \/ posts[i].status = status})
  /\ UNCHANGED <<posts, nextId, req, seo, db, now>>

\* Variant: only a publication date in the future hides a post.
hiddenFromOthersByDate(post) == post.publishedAt # NoDate /\ post.publishedAt > now

\* post.status !== 'PUBLISHED' || post.publishedAt > new Date(); null > date
\* is false.
hiddenFromOthers(post) ==
  post.status # "PUBLISHED" \/ (post.publishedAt # NoDate /\ post.publishedAt > now)

\* GET /api/posts/:slug
GetPost(user, slug) ==
  LET id == findUniqueBySlug(slug)
  IN  IF id = NoId \/ (~isAdmin(user) /\ hiddenFromOthers(posts[id]))
      THEN /\ res' = PostsResponse("view", user, id, 404, "POST_NOT_FOUND", {})
           /\ UNCHANGED <<posts, nextId, req, seo, db, now>>
      ELSE /\ posts[id].viewCount < MaxViews
           /\ posts' = [posts EXCEPT ![id].viewCount = @ + 1]
           /\ res' = PostsResponse("view", user, id, 200, "", {id})
           /\ UNCHANGED <<nextId, req, seo, db, now>>

\* Time passes.
Tick ==
  /\ now < MaxNow
  /\ now' = now + 1
  /\ UNCHANGED <<posts, nextId, req, seo, db, res>>

\* ---- publication: posts are created and updated with every status, with and
\* without a schedule, and read by an anonymous visitor, an author and an admin.
StatusInputs == {Unset, "DRAFT", "PUBLISHED", "SCHEDULED", "PRIVATE"}
DateInputs == {NoDate, MaxNow + 1}
SlugInputs2 == {slugify(<<"F", "o", "o">>), <<"f", "o", "o", "-", "1">>}

NextPublish ==
  \/ \E st \in StatusInputs, at \in DateInputs :
       CreatePost(Ann, <<"F", "o", "o">>, st, at, <<>>)
  \/ \E id \in 1..MaxStored, st \in StatusInputs, at \in DateInputs :
       UpdatePost(Ann, id, <<"F", "o", "o">>, st, at, <<>>, "none")
  \/ \E user \in {NoUser, Ann, Ed, Admin}, status \in {"PUBLISHED", "ALL"} :
       GetPosts(user, status)
  \/ \E user \in {NoUser, Ann, Ed, Admin}, slug \in SlugInputs2 : GetPost(user, slug)
  \/ Tick

SpecPublish == Init /\ [][NextPublish]_vars

\* ---- modification: posts of the three users are updated and deleted by
\* each of them, with tags, and with queries that reject.
seoTag == <<"s", "e", "o">>
SEOTag == <<"S", "E", "O">>
webTag == <<"w", "e", "b">>
TagsInputs == {<<>>, <<seoTag>>, <<seoTag, webTag>>, <<seoTag, SEOTag>>}

NextModify ==
  \/ \E user \in Users, tags \in {<<>>, <<seoTag>>} :
       CreatePost(user, <<"F", "o", "o">>, Unset, NoDate, tags)
  \/ \E user \in Users, id \in 1..MaxStored, t \in RaceTitles,
        tags \in TagsInputs, fail \in Failures :
       UpdatePost(user, id, t, Unset, NoDate, tags, fail)
  \/ \E user \in Users, id \in 1..MaxStored : DeletePost(user, id)

SpecModify == Init /\ [][NextModify]_vars

\* ============================================ POST /api/analytics/track-view

\* Bounds: instants of the clock in one day, views tracked of one post.
DayInstants == 2
MaxTracked == 4

\* today = new Date(); today.setHours(0, 0, 0, 0): the first instant of the day.
setHours0(instant) == instant - (instant % DayInstants)

\* req.ip of the clients
IpAddresses == {"10.0.0.1", "10.0.0.2"}

\* prisma.postAnalytics.findFirst({ where: { postId, date: today, ipAddress } })
existingViews(postId, today, ipAddress) ==
  {a \in db.postAnalytics :
     a.postId = postId /\ a.date = today /\ a.ipAddress = ipAddress}

\* @@unique([postId, date]): prisma.postAnalytics.create rejects a second
\* record of the same post and date.
createAnalyticsThrows(postId, today) ==
  \E a \in db.postAnalytics : a.postId = postId /\ a.date = today

TrackResponse(postId, ipAddress, status, code) ==
  [op |-> "track", postId |-> postId, ipAddress |-> ipAddress,
   status |-> status, code |-> code]

\* POST /api/analytics/track-view { postId } from ipAddress
TrackView(postId, ipAddress) ==
  IF postId \notin DOMAIN posts
  THEN /\ res' = TrackResponse(postId, ipAddress, 404, "POST_NOT_FOUND")
       /\ UNCHANGED <<posts, nextId, req, seo, db, now>>
  ELSE
    LET today == setHours0(now)
        existing == existingViews(postId, today, ipAddress)
    IN  /\ posts[postId].viewCount < MaxTracked
        /\ IF existing # {}
           THEN LET existingView == CHOOSE a \in existing : TRUE
                IN  /\ db' = [db EXCEPT !.postAnalytics = (@ \ {existingView}) \cup
                              {[existingView EXCEPT !.views = @ + 1]}]
                    /\ posts' = [posts EXCEPT ![postId].viewCount = @ + 1]
                    /\ res' = TrackResponse(postId, ipAddress, 200, "")
           ELSE IF createAnalyticsThrows(postId, today)
           THEN /\ res' = TrackResponse(postId, ipAddress, 500, "TRACK_VIEW_ERROR")
                /\ UNCHANGED <<posts, db>>
           ELSE /\ db' = [db EXCEPT !.postAnalytics = @ \cup
                          {[postId |-> postId, date |-> today, views |-> 1,
                            uniqueViews |-> 1, ipAddress |-> ipAddress]}]
                /\ posts' = [posts EXCEPT ![postId].viewCount = @ + 1]
                /\ res' = TrackResponse(postId, ipAddress, 200, "")
        /\ UNCHANGED <<nextId, req, seo, now>>

\* ---- published posts are viewed from two addresses over the days; posts are
\* deleted with their analytics.
NextViews ==
  \/ CreatePost(Ann, <<"F", "o", "o">>, "PUBLISHED", NoDate, <<>>)
  \/ \E postId \in 1..MaxStored, ipAddress \in IpAddresses : TrackView(postId, ipAddress)
  \/ \E id \in 1..MaxStored : DeletePost(Ann, id)
  \/ Tick

SpecViews == Init /\ [][NextViews]_vars

\* ================================================================ /api/backup

\* Bound: backup records created.
MaxBackups == 2

\* timestamp = new Date().toISOString().replace(/[:.]/g, '-');
\* path.basename(`${path.join('backups', timestamp)}.zip`)
archiveFilename(instant) == NumToString(instant) \o <<".", "z", "i", "p">>

\* The directory 'backups' itself: path.join('backups', '').
BackupsDir == << >>

\* archive.pointer(): the bytes written, more with the uploads directory.
archiveSize(includeMedia) == IF includeMedia THEN 2 ELSE 1

\* The position of a POST /create request between its awaits.
BackupRequest(pc, id, includeMedia, archiveInfo, error) ==
  [op |-> "backup", pc |-> pc, backupId |-> id, includeMedia |-> includeMedia,
   archiveInfo |-> archiveInfo, error |-> error]

NoArchive == [filename |-> << >>, size |-> 0]

BackupResponse(op, id, status, code, filename) ==
  [op |-> op, backupId |-> id, status |-> status, code |-> code,
   filename |-> filename]

\* POST /create: prisma.backup.create; the id is the next cuid.
BackupCreate(r, type, includeMedia) ==
  LET id == db.cuids + 1
  IN  /\ req[r] = Idle
      /\ db.cuids < MaxBackups
      /\ db' = [db EXCEPT
                  !.cuids = id,
                  !.backups = [i \in DOMAIN @ \cup {id} |->
                                 IF i = id
                                 THEN [filename |-> << >>, size |-> 0, type |-> type,
                                       status |-> "IN_PROGRESS",
                                       completedAt |-> NoDate, error |-> ""]
                                 ELSE @[i]]]
      /\ req' = [req EXCEPT ![r] = BackupRequest("export", id, includeMedia, NoArchive, "")]
      /\ UNCHANGED <<posts, nextId, seo, now, res>>

\* await generateWordPressExport(): resolves, or rejects into the inner catch.
BackupExport(r, ok) ==
  /\ req[r].op = "backup" /\ req[r].pc = "export"
  /\ req' = [req EXCEPT ![r] = IF ok THEN [@ EXCEPT !.pc = "archive"]
                                 ELSE [@ EXCEPT !.pc = "catch", !.error = "export failed"]]
  /\ UNCHANGED <<posts, nextId, seo, db, now, res>>

\* await createBackupArchive(exportData, includeMedia): the directory and the
\* file are made; the archive closes, or fails into the inner catch.
BackupArchive(r, ok) ==
  LET filename == archiveFilename(now)
  IN  /\ req[r].op = "backup" /\ req[r].pc = "archive"
      /\ db' = [db EXCEPT !.files = @ \cup {BackupsDir, filename}]
      /\ req' = [req EXCEPT ![r] =
                   IF ok
                   THEN [@ EXCEPT !.pc = "update",
                                  !.archiveInfo = [filename |-> filename,
                                                   size |-> archiveSize(req[r].includeMedia)]]
                   ELSE [@ EXCEPT !.pc = "catch", !.error = "archive failed"]]
      /\ UNCHANGED <<posts, nextId, seo, now, res>>

\* await prisma.backup.update({ ... status: 'COMPLETED' }) and res.json; the
\* update rejects when the record has been deleted.
BackupComplete(r) ==
  LET id == req[r].backupId
  IN  /\ req[r].op = "backup" /\ req[r].pc = "update"
      /\ IF id \in DOMAIN db.backups
         THEN /\ db' = [db EXCEPT !.backups[id] =
                          [@ EXCEPT !.filename = req[r].archiveInfo.filename,
                                    !.size = req[r].archiveInfo.size,
                                    !.status = "COMPLETED",
                                    !.completedAt = now]]
              /\ req' = [req EXCEPT ![r] = Idle]
              /\ res' = BackupResponse("create", id, 200, "", req[r].archiveInfo.filename)
         ELSE /\ req' = [req EXCEPT ![r] = [@ EXCEPT !.pc = "catch",
                                                      !.error = "record not found"]]
              /\ UNCHANGED <<db, res>>
      /\ UNCHANGED <<posts, nextId, seo, now>>

\* The inner catch: the error is recorded and thrown again.
backupFailed(backup, error) == [backup EXCEPT !.status = "FAILED", !.error = error]

\* catch (error) { await prisma.backup.update({ status: 'FAILED', error });
\* throw error } and the outer catch: 500 CREATE_BACKUP_ERROR
BackupCatch(r) ==
  LET id == req[r].backupId
  IN  /\ req[r].op = "backup" /\ req[r].pc = "catch"
      /\ db' = IF id \in DOMAIN db.backups
               THEN [db EXCEPT !.backups[id] = backupFailed(@, req[r].error)]
               ELSE db
      /\ req' = [req EXCEPT ![r] = Idle]
      /\ res' = BackupResponse("create", id, 500, "CREATE_BACKUP_ERROR", << >>)
      /\ UNCHANGED <<posts, nextId, seo, now>>

\* Variant: only a failed backup is not ready.
backupNotReadyFailed(backup) == backup.status = "FAILED"

\* backup.status !== 'COMPLETED'
backupNotReady(backup) == backup.status # "COMPLETED"

\* GET /download/:id
BackupDownload(id) ==
  /\ res' = IF id \notin DOMAIN db.backups
            THEN BackupResponse("download", id, 404, "BACKUP_NOT_FOUND", << >>)
            ELSE IF backupNotReady(db.backups[id])
            THEN BackupResponse("download", id, 400, "BACKUP_NOT_READY", << >>)
            ELSE IF db.backups[id].filename \notin db.files
            THEN BackupResponse("download", id, 404, "BACKUP_FILE_NOT_FOUND", << >>)
            ELSE BackupResponse("download", id, 200, "", db.backups[id].filename)
  /\ UNCHANGED <<posts, nextId, req, seo, db, now>>

\* DELETE /:id: the file is unlinked when the record names one.
BackupDelete(id) ==
  IF id \notin DOMAIN db.backups
  THEN /\ res' = BackupResponse("delete", id, 404, "BACKUP_NOT_FOUND", << >>)
       /\ UNCHANGED <<posts, nextId, req, seo, db, now>>
  ELSE /\ db' = [db EXCEPT
                   !.files = IF db.backups[id].filename # << >>
                             THEN @ \ {db.backups[id].filename} ELSE @,
                   !.backups = [i \in DOMAIN @ \ {id} |-> @[i]]]
       /\ res' = BackupResponse("delete", id, 200, "", << >>)
       /\ UNCHANGED <<posts, nextId, req, seo, now>>

\* ---- backups are created by two requests at once, downloaded and deleted
\* while the clock advances.
NextBackup ==
  \/ \E r \in Procs : BackupCreate(r, "FULL", TRUE)
  \/ \E r \in Procs, ok \in BOOLEAN : BackupExport(r, ok)
  \/ \E r \in Procs, ok \in BOOLEAN : BackupArchive(r, ok)
  \/ \E r \in Procs : BackupComplete(r)
  \/ \E r \in Procs : BackupCatch(r)
  \/ \E id \in 1..MaxBackups : BackupDownload(id)
  \/ \E id \in 1..MaxBackups : BackupDelete(id)
  \/ Tick

SpecBackup == Init /\ [][NextBackup]_vars

\* ============================================================== /api/comments

\* Bound: comments created.
MaxComments == 2

SPAM_KEYWORDS ==
  {<<"v", "i", "a", "g", "r", "a">>,
   <<"c", "a", "s", "i", "n", "o">>,
   <<"l", "o", "t", "t", "e", "r", "y">>,
   <<"w", "i", "n", "n", "e", "r">>,
   <<"c", "o", "n", "g", "r", "a", "t", "u", "l", "a", "t", "i", "o", "n", "s">>,
   <<"c", "l", "i", "c", "k", " ", "h", "e", "r", "e">>,
   <<"f", "r", "e", "e", " ", "m", "o", "n", "e", "y">>,
   <<"m", "a", "k", "e", " ", "m", "o", "n", "e", "y", " ", "f", "a", "s", "t">>,
   <<"w", "o", "r", "k", " ", "f", "r", "o", "m", " ", "h", "o", "m", "e">>,
   <<"b", "u", "y", " ", "n", "o", "w">>,
   <<"l", "i", "m", "i", "t", "e", "d", " ", "t", "i", "m", "e">>,
   <<"a", "c", "t", " ", "n", "o", "w">>,
   <<"u", "r", "g", "e", "n", "t">>,
   <<"g", "u", "a", "r", "a", "n", "t", "e", "e", "d">>}

\* content.match(/https?:\/\/[^\s]+/g): a link starts at i.
linkStartsAt(content, i) ==
  LET at(k) == IF k <= Len(content) THEN content[k] ELSE " "
      colon == IF at(i + 4) = "s" THEN i + 5 ELSE i + 4
  IN  /\ at(i) = "h" /\ at(i + 1) = "t" /\ at(i + 2) = "t" /\ at(i + 3) = "p"
      /\ at(colon) = ":" /\ at(colon + 1) = "/" /\ at(colon + 2) = "/"
      /\ at(colon + 3) \notin WhiteSpace

\* The matches do not overlap: each runs to the next whitespace, so the first
\* start of a run of non-whitespace is the one counted.
linkCount(content) ==
  Cardinality({i \in 1..Len(content) :
     /\ linkStartsAt(content, i)
     /\ ~\E j \in 1..(i - 1) :
           /\ linkStartsAt(content, j)
           /\ \A k \in j..i : content[k] \notin WhiteSpace})

\* detectSpam(content, authorEmail, authorName)
detectSpam(content, authorEmail, authorName) ==
  LET text == toLowerCaseAll(content \o <<" ">> \o orEmpty(authorEmail)
                               \o <<" ">> \o orEmpty(authorName))
      spamKeywordCount == Cardinality({keyword \in SPAM_KEYWORDS :
                                         includes(text, toLowerCaseAll(keyword))})
      links == linkCount(content)
      caps == Cardinality({i \in 1..Len(content) : content[i] \in Upper})
      spamScore ==
          (IF spamKeywordCount > 0 THEN spamKeywordCount * 30 ELSE 0)
        + (IF links > 2 THEN (links - 2) * 20 ELSE 0)
        + (IF caps * 10 > 3 * Len(content) THEN 25 ELSE 0)
        + (IF Len(content) < 10 THEN 15 ELSE 0)
        + (IF includes(content, <<"h", "t", "t", "p">>) /\ Len(content) < 50
           THEN 30 ELSE 0)
  IN  [isSpam |-> spamScore > 50, score |-> spamScore]

\* req.user.username and req.user.email of the seeded users
username(user) ==
  CASE user = Admin -> <<"a", "d", "m", "i", "n">>
    [] user = Ann -> <<"a", "n", "n">>
    [] user = Ed -> <<"e", "d">>
email(user) == username(user) \o <<"@", "b", "l", "o", "g", ".", "i", "o">>

\* For logged-in users, use their info
finalAuthorName(user, authorName) ==
  IF user # NoUser THEN username(user) ELSE authorName
finalAuthorEmail(user, authorEmail) ==
  IF user # NoUser THEN email(user) ELSE authorEmail

\* The comments that are posted: their texts, their authors and the names
\* anonymous authors give.
ThanksContent == <<"N", "i", "c", "e", " ", "p", "o", "s", "t", ",", " ", "t", "h", "a", "n", "k", "s">>
CasinoContent == <<"c", "a", "s", "i", "n", "o", " ", "w", "i", "n", "n", "e", "r">>
UrgentContent == <<"u", "r", "g", "e", "n", "t">>
CommentContents == {ThanksContent, CasinoContent, UrgentContent}
AuthorNames == {Undefined, <<"L", "o", "t", "t", "e", "r", "y", " ", "W", "i", "n", "n", "e", "r">>}
Commenters == {NoUser, Ann, Admin}

\* detectSpam of every comment that is posted, computed once.
spamChecks ==
  [t \in {<<content, finalAuthorEmail(user, Undefined), finalAuthorName(user, authorName)>> :
            content \in CommentContents, user \in Commenters,
            authorName \in AuthorNames}
     |-> detectSpam(t[1], t[2], t[3])]

\* Variant: an ADMIN's comment is approved before the spam check is read.
commentStatusAdminFirst(user, spamCheck) ==
  IF isAdmin(user) THEN "APPROVED"
  ELSE IF spamCheck.isSpam THEN "SPAM"
  ELSE "PENDING"

\* let status = 'PENDING'; if (spamCheck.isSpam) ... else if (ADMIN) ...
commentStatus(user, spamCheck) ==
  IF spamCheck.isSpam THEN "SPAM"
  ELSE IF isAdmin(user) THEN "APPROVED"
  ELSE "PENDING"

NoComment == 0

CommentResponse(op, user, id, status, code, comments, replies) ==
  [op |-> op, user |-> user.id, commentId |-> id, status |-> status,
   code |-> code, comments |-> comments, replies |-> replies]

\* res.status(201).json({ message, comment })
CreatedResponse(user, id, comment) ==
  [op |-> "comment", user |-> user.id, commentId |-> id, status |-> 201,
   code |-> "", comments |-> {}, replies |-> {}, comment |-> comment]

\* POST /api/comments: of the row written, the columns that later requests
\* read are kept; the text and the author's name are in the response.
CreateComment(user, postId, content, authorName, parentId) ==
  LET id == db.cuids + 1
      name == finalAuthorName(user, authorName)
      mail == finalAuthorEmail(user, Undefined)
      spamCheck == spamChecks[<<content, mail, name>>]
      refuse(status, code) ==
        /\ res' = CommentResponse("comment", user, NoComment, status, code, {}, {})
        /\ UNCHANGED <<posts, nextId, req, seo, db, now>>
  IN  /\ db.cuids < MaxComments
      /\ IF Len(content) < 1 \/ Len(content) > 1000
         THEN refuse(400, "Validation failed")
         ELSE IF postId \notin DOMAIN posts
         THEN refuse(404, "POST_NOT_FOUND")
         ELSE IF posts[postId].status # "PUBLISHED"
         THEN refuse(400, "COMMENTS_NOT_ALLOWED")
         ELSE IF parentId # NoComment
                 /\ (parentId \notin DOMAIN db.comments
                       \/ db.comments[parentId].postId # postId)
         THEN refuse(400, "INVALID_PARENT_COMMENT")
         ELSE /\ db' = [db EXCEPT
                          !.cuids = id,
                          !.comments = [i \in DOMAIN @ \cup {id} |->
                             IF i = id
                             THEN [status |-> commentStatus(user, spamCheck),
                                   postId |-> postId, parentId |-> parentId]
                             ELSE @[i]]]
              /\ res' = CreatedResponse(user, id,
                          [content |-> content,
                           status |-> commentStatus(user, spamCheck),
                           authorName |-> name, authorEmail |-> mail])
              /\ UNCHANGED <<posts, nextId, req, seo, now>>

\* GET /api/comments/post/:postId: the approved top-level comments of the post
\* with their approved replies.
GetComments(postId) ==
  LET comments == {id \in DOMAIN db.comments :
                     /\ db.comments[id].postId = postId
                     /\ db.comments[id].status = "APPROVED"
                     /\ db.comments[id].parentId = NoComment}
      replies == {id \in DOMAIN db.comments :
                    /\ db.comments[id].parentId \in comments
                    /\ db.comments[id].status = "APPROVED"}
  IN  /\ res' = IF postId \notin DOMAIN posts
                THEN CommentResponse("comments", NoUser, NoComment, 404,
                                     "POST_NOT_FOUND", {}, {})
                ELSE CommentResponse("comments", NoUser, NoComment, 200, "",
                                     comments, replies)
      /\ UNCHANGED <<posts, nextId, req, seo, db, now>>

\* requireRole(['ADMIN', 'EDITOR']) lets the request through to the handler.
Moderators == {"ADMIN", "EDITOR"}

CommentStatuses == {"APPROVED", "PENDING", "SPAM", "TRASH"}

\* PUT /api/comments/:id/status { status }
SetCommentStatus(user, id, status) ==
  /\ user.role \in Moderators
  /\ IF status \notin CommentStatuses
     THEN /\ res' = CommentResponse("status", user, id, 400, "Validation failed", {}, {})
          /\ UNCHANGED db
     ELSE IF id \notin DOMAIN db.comments
     THEN /\ res' = CommentResponse("status", user, id, 404, "COMMENT_NOT_FOUND", {}, {})
          /\ UNCHANGED db
     ELSE /\ db' = [db EXCEPT !.comments[id].status = status]
          /\ res' = [CommentResponse("status", user, id, 200, "", {}, {})
                       EXCEPT !.code = status]
  /\ UNCHANGED <<posts, nextId, req, seo, now>>

\* prisma.comment.delete / deleteMany: the rows go, and the replies to them
\* lose their parent (an optional relation without onDelete sets null).
deleteComments(comments, ids) ==
  [i \in DOMAIN comments \ ids |->
     IF comments[i].parentId \in ids
     THEN [comments[i] EXCEPT !.parentId = NoComment]
     ELSE comments[i]]

\* DELETE /api/comments/:id
DeleteComment(user, id) ==
  /\ user.role \in Moderators
  /\ IF id \notin DOMAIN db.comments
     THEN /\ res' = CommentResponse("deleteComment", user, id, 404,
                                    "COMMENT_NOT_FOUND", {}, {})
          /\ UNCHANGED db
     ELSE /\ db' = [db EXCEPT !.comments = deleteComments(@, {id})]
          /\ res' = CommentResponse("deleteComment", user, id, 200, "", {}, {})
  /\ UNCHANGED <<posts, nextId, req, seo, now>>

\* The status a bulk action writes.
bulkStatus(action) ==
  CASE action = "approve" -> "APPROVED"
    [] action = "reject" -> "PENDING"
    [] action = "spam" -> "SPAM"

\* POST /api/comments/bulk-action { action, commentIds }
BulkAction(user, action, commentIds) ==
  /\ user.role \in Moderators
  /\ IF commentIds = {}
     THEN /\ res' = CommentResponse("bulk", user, NoComment, 400,
                                    "NO_COMMENTS_SELECTED", {}, {})
          /\ UNCHANGED db
     ELSE /\ db' = [db EXCEPT !.comments =
                      IF action = "delete" THEN deleteComments(@, commentIds)
                      ELSE [i \in DOMAIN @ |->
                              IF i \in commentIds
                              THEN [@[i] EXCEPT !.status = bulkStatus(action)]
                              ELSE @[i]]]
          /\ res' = [CommentResponse("bulk", user, NoComment, 200, "", commentIds, {})
                       EXCEPT !.code = action]
  /\ UNCHANGED <<posts, nextId, req, seo, now>>

\* ---- visitors, an author and an admin comment on the post and reply; an admin
\* and an editor moderate; the public list is read; the post is deleted and
\* another one is created.
NextComments ==
  \/ \E st \in {"PUBLISHED", "DRAFT"} :
       posts = << >> /\ CreatePost(Ann, <<"F", "o", "o">>, st, NoDate, <<>>)
  \/ \E id \in 1..MaxStored : DeletePost(Ann, id)
  \/ \E user \in Commenters, postId \in 1..MaxStored,
        content \in CommentContents, authorName \in AuthorNames,
        parentId \in 0..MaxComments :
       CreateComment(user, postId, content, authorName, parentId)
  \/ \E postId \in 1..MaxStored : GetComments(postId)
  \/ \E id \in 1..MaxComments, status \in CommentStatuses :
       SetCommentStatus(Admin, id, status)
  \/ \E id \in 1..MaxComments : DeleteComment(Admin, id)
  \/ \E action \in {"approve", "reject", "spam", "delete"},
        commentIds \in SUBSET (1..MaxComments) :
       BulkAction(Ed, action, commentIds)

SpecComments == Init /\ [][NextComments]_vars

\* =================================================================== claims

Foo  == <<"F", "o", "o">>
foo  == <<"f", "o", "o">>
foo1 == <<"f", "o", "o", "-", "1">>
foo2 == <<"f", "o", "o", "-", "2">>
foo3 == <<"f", "o", "o", "-", "3">>

\* Some post other than x holds the slug (x = NoId: any post).
HeldByOther(slug, x) == \E i \in DOMAIN posts : i # x /\ posts[i].slug = slug

\* The base if no post other than x holds it, else base-k for the least k >= 1
\* such that no post other than x holds base-k.
ExpectedSlug(base, x) ==
  IF ~HeldByOther(base, x) THEN base
  ELSE LET k == CHOOSE n \in 1..(Cardinality(DOMAIN posts) + 1) :
                  /\ ~HeldByOther(Suffixed(base, n), x)
                  /\ \A j \in 1..(n - 1) : HeldByOther(Suffixed(base, j), x)
       IN  Suffixed(base, k)

\* The step of request r in which its probe loop breaks with a slug.
Returns(r) ==
  /\ req[r].pc = "probe"
  /\ \/ req'[r].pc = "persist"
     \/ req'[r].pc = "done" /\ req'[r].status = 200

\* ^[a-z0-9]+(-[a-z0-9]+)*$
MatchesSlugPattern(s) ==
  /\ s # <<>>
  /\ \A i \in 1..Len(s) : s[i] \in Lower \cup Digit \cup {"-"}
  /\ s[1] # "-"
  /\ s[Len(s)] # "-"
  /\ \A i \in 1..(Len(s) - 1) : ~(s[i] = "-" /\ s[i + 1] = "-")

\* The posts other than x whose slug is the base or the base with a numeric
\* suffix.
Colliding(base, x) ==
  {i \in DOMAIN posts \ {x} :
     \/ posts[i].slug = base
     \/ \E k \in 1..(MaxPosts + 2) : posts[i].slug = Suffixed(base, k)}

\* C1: with one request at a time, an allocation without exclude id (by
\* generateUniqueSlug or by the generate-slug endpoint) returns the base slug
\* if no post holds it, and otherwise base-k for the least k >= 1 that no post
\* holds.
C1_SmallestFreeSuffix ==
  [][\A r \in Procs :
       (Returns(r) /\ req[r].postId = NoId)
         => req'[r].slug = ExpectedSlug(req[r].baseSlug, NoId)]_vars

\* C1 witness: posts hold foo, foo-1 and foo-2 and an allocation answered foo-3.
C1_Witness ==
  /\ {posts[i].slug : i \in DOMAIN posts} = {foo, foo1, foo2}
  /\ \E r \in Procs :
       req[r].op = "genslug" /\ req[r].pc = "done" /\ req[r].status = 200
         /\ req[r].slug = foo3

\* C2: with one request at a time, an allocation with exclude id X treats a
\* candidate held only by post X as free; when post X holds the base slug the
\* base slug itself is returned.
C2_SelfExclusion ==
  [][\A r \in Procs :
       (Returns(r) /\ req[r].postId # NoId)
         => /\ req'[r].slug = ExpectedSlug(req[r].baseSlug, req[r].postId)
            /\ (req[r].postId \in DOMAIN posts
                  /\ posts[req[r].postId].slug = req[r].baseSlug)
                 => req'[r].slug = req[r].baseSlug]_vars

\* C2 witness: an update of post X with a new title of the same base slug has
\* been allocated the slug X already holds.
C2_Witness ==
  \E r \in Procs :
    /\ req[r].op = "update" /\ req[r].pc = "persist"
    /\ req[r].title # posts[req[r].postId].title
    /\ req[r].slug = req[r].baseSlug
    /\ posts[req[r].postId].slug = req[r].baseSlug

\* C3: the allocator never returns the empty string and no post is persisted
\* with an empty slug.
C3_NeverEmptySlug ==
  /\ \A i \in DOMAIN posts : posts[i].slug # <<>>
  /\ \A r \in Procs :
       (req[r].pc = "persist" \/ (req[r].pc = "done" /\ req[r].status \in {200, 201}))
         => req[r].slug # <<>>

\* C4: every slug the allocator returns matches ^[a-z0-9]+(-[a-z0-9]+)*$.
C4_SlugCharset ==
  \A r \in Procs :
    (req[r].pc = "persist" \/ (req[r].pc = "done" /\ req[r].status \in {200, 201}))
      => MatchesSlugPattern(req[r].slug)

\* C5: under any interleaving of create and update requests no two persisted
\* posts have the same slug.
C5_UniqueSlugs ==
  \A i, j \in DOMAIN posts : i # j => posts[i].slug # posts[j].slug

\* C5 witness: an update whose pre-check was stale has been rejected by the
\* unique index while another post holds a slug.
C5_Witness ==
  \E r \in Procs :
    /\ req[r].op = "update" /\ req[r].pc = "done" /\ req[r].logged = "P2002"
    /\ Cardinality(DOMAIN posts) >= 2

\* C6: a create request that reaches persistence with a slug some post holds
\* ends with 500 CREATE_POST_ERROR, without retrying the allocation and
\* without persisting a post; with a slug no post holds it persists exactly
\* one post and answers 201.
C6_RaceLoserFails ==
  [][\A r \in Procs :
       (req[r].op = "create" /\ req[r].pc = "persist" /\ req'[r] # req[r])
         => IF HeldByOther(req[r].slug, NoId)
            THEN /\ posts' = posts
                 /\ req'[r].pc = "done"
                 /\ req'[r].status = 500
                 /\ req'[r].code = "CREATE_POST_ERROR"
            ELSE /\ req'[r].pc = "done"
                 /\ req'[r].status = 201
                 /\ DOMAIN posts' = DOMAIN posts \cup {req'[r].postId}
                 /\ req'[r].postId \notin DOMAIN posts
                 /\ posts'[req'[r].postId].slug = req[r].slug
                 /\ \A i \in DOMAIN posts : posts'[i] = posts[i]]_vars

\* C6 witness: two creates were both allocated the same slug; one persisted it
\* and answered 201, the other hit the unique index and answered 500, and the
\* table holds the one post.
C6_Witness ==
  \E r1, r2 \in Procs :
    /\ req[r1].op = "create" /\ req[r1].pc = "done" /\ req[r1].status = 201
    /\ req[r2].op = "create" /\ req[r2].pc = "done" /\ req[r2].status = 500
    /\ req[r2].code = "CREATE_POST_ERROR" /\ req[r2].logged = "P2002"
    /\ DOMAIN posts = {req[r1].postId}
    /\ posts[req[r1].postId].slug = req[r1].slug

\* C7: with one request at a time, every probe either ends the loop or moves
\* to the next counter value, and the number of probes never exceeds the
\* number of colliding posts plus one.
C7_ProbeBound ==
  [][\A r \in Procs :
       (req[r].pc = "probe" /\ req'[r] # req[r])
         => /\ req[r].counter <= Cardinality(Colliding(req[r].baseSlug, req[r].postId)) + 1
            /\ req'[r].pc = "probe" => req'[r].counter = req[r].counter + 1]_vars

\* C7 witness: a loop is at its third probe with two colliding posts.
C7_Witness ==
  \E r \in Procs :
    /\ req[r].pc = "probe" /\ req[r].counter = 3
    /\ Cardinality(Colliding(req[r].baseSlug, req[r].postId)) = 2

\* C8: no step of a probe loop and no step of a generate-slug request
\* changes the posts table, whether the request goes on, answers or fails.
C8_AllocatorReadOnly ==
  [][\A r \in Procs :
       (req'[r] # req[r]
          /\ (req[r].pc = "probe" \/ req[r].op = "genslug" \/ req'[r].op = "genslug"))
         => posts' = posts]_vars

\* C8 witness: a generate-slug request has answered a suffixed slug while
\* posts exist.
C8_Witness ==
  \E r \in Procs :
    /\ req[r].op = "genslug" /\ req[r].pc = "done" /\ req[r].status = 200
    /\ req[r].slug = foo1
    /\ DOMAIN posts # {}

\* C9: the generate-slug response has isUnique = true exactly when the
\* returned slug is the base candidate, which is exactly when no post other
\* than postId held the base.
C9_IsUniqueFlag ==
  [][\A r \in Procs :
       (Returns(r) /\ req[r].op = "genslug")
         => /\ req'[r].isUnique <=> (req'[r].slug = req[r].baseSlug)
            /\ req'[r].isUnique <=> ~HeldByOther(req[r].baseSlug, req[r].postId)]_vars

\* C9 witness: a generate-slug response carries a suffixed slug and
\* isUnique = false.
C9_Witness ==
  \E r \in Procs :
    /\ req[r].op = "genslug" /\ req[r].pc = "done" /\ req[r].status = 200
    /\ req[r].slug = foo2 /\ ~req[r].isUnique

\* C10: with one request at a time, an update enters the allocator exactly
\* when its title differs from the stored title, with the post's own id as
\* exclude id, and a successful update with the stored title leaves the slug
\* unchanged.
C10_SlugPreserved ==
  [][\A r \in Procs :
       /\ (req[r].pc = "idle" /\ req'[r].op = "update" /\ req'[r].pc # "done")
            => /\ req'[r].postId \in DOMAIN posts
               /\ (req'[r].pc = "probe")
                    <=> (req'[r].title # posts[req'[r].postId].title)
       /\ (req[r].op = "update" /\ req[r].pc = "persist" /\ req'[r].status = 200
             /\ req[r].title = posts[req[r].postId].title)
            => posts'[req[r].postId].slug = posts[req[r].postId].slug]_vars

\* C10 witness: an update with the stored title keeps a slug that a fresh
\* allocation for that title would not return.
C10_Witness ==
  \E r \in Procs :
    /\ req[r].op = "update" /\ req[r].pc = "persist"
    /\ req[r].title = posts[req[r].postId].title
    /\ req[r].slug = posts[req[r].postId].slug
    /\ req[r].slug # ExpectedSlug(slugify(req[r].title), req[r].postId)

\* ------------------------------------------------------- SEO scorer claims

Range(seq) == {seq[i] : i \in DOMAIN seq}

\* The server scorer has answered / the component's effect has run.
Analysed == seo.analysis.status # "none"
Rendered == seo.analyzer.checks # <<>>

\* The form has nothing filled in.
EmptyPost ==
  /\ seo.title = <<>> /\ seo.content = <<>> /\ seo.metaDescription = <<>>
  /\ seo.slug = <<>> /\ seo.featuredImage = "" /\ seo.tags = <<>>

\* C11: the score of the server scorer and the score of the UI scorer are
\* integers between 0 and 100, whatever the inputs.
C11_ScoreBounds ==
  /\ Analysed => seo.analysis.score \in 0..100
  /\ Rendered => seo.analyzer.seoScore \in 0..100

\* C11 witness: both scorers have scored a post that follows every
\* recommendation, the UI scorer at the top of the range.
C11_Witness ==
  /\ Analysed /\ Rendered
  /\ seo.analysis.score = 95
  /\ seo.analyzer.seoScore = 100

\* The points the server scorer awards for a successful check.
ServerWeight ==
  [title |-> 20, metaDescription |-> 20, slug |-> 15, content |-> 0,
   wordCount |-> 15, headings |-> 10, images |-> 10, links |-> 5]

RECURSIVE SumOver(_, _)
SumOver(f, keys) ==
  IF keys = {} THEN 0
  ELSE LET k == CHOOSE x \in keys : TRUE IN f[k] + SumOver(f, keys \ {k})

\* The points awarded by the server's checks, and the most its applicable
\* checks could have awarded.
ServerAwarded ==
  SumOver(ServerWeight,
          {k \in DOMAIN ServerWeight : seo.analysis.checks[k].status = "success"})
ServerAttainable ==
  SumOver(ServerWeight,
          {k \in DOMAIN ServerWeight : seo.analysis.checks[k].status # "absent"})

\* C12: each scorer's score is the points awarded by its applicable checks
\* divided by the most those checks can award, scaled to 0..100, rounded and
\* capped at 100.
C12_ScoreFormula ==
  /\ Analysed =>
       seo.analysis.score =
         MathMin100(MathRound(ServerAwarded * 100, ServerAttainable))
  /\ Rendered =>
       seo.analyzer.seoScore =
         MathMin100(MathRound(SumScores(seo.analyzer.checks) * 100,
                              Len(seo.analyzer.checks) * 10))

\* The four bands, by the names the server scorer and the UI give them.
ServerBands == <<"excellent", "good", "needs-improvement", "poor">>
UiBands     == <<"Excellent", "Good", "Needs Improvement", "Poor">>

\* `status` is the band of `score`, under the given names.
Banded(status, score, names) ==
  /\ status \in Range(names)
  /\ status = names[1] <=> score >= 80
  /\ status = names[2] <=> (score >= 60 /\ score <= 79)
  /\ status = names[3] <=> (score >= 40 /\ score <= 59)
  /\ status = names[4] <=> score < 40

\* C13: the status is excellent iff score >= 80, good iff 60..79,
\* needs-improvement iff 40..59 and poor iff < 40; every score is in exactly
\* one band, and the server's status and the UI's getScoreStatus put every
\* score in the same band.
C13_StatusBanding ==
  /\ \A score \in 0..100 :
       /\ Banded(overallStatus(score), score, ServerBands)
       /\ Banded(getScoreStatus(score), score, UiBands)
  /\ Analysed => Banded(seo.analysis.status, seo.analysis.score, ServerBands)

\* C13 witness: the server scorer reports excellent at exactly 80 while the
\* UI shows 79 for the same post, one band lower.
C13_Witness ==
  /\ Analysed /\ Rendered
  /\ seo.analysis.score = 80 /\ seo.analysis.status = "excellent"
  /\ seo.analyzer.seoScore = 79

\* C14: the server scorer, given an empty title, content, meta description and
\* slug, answers status poor, score 0 and issues that hold a title-missing and
\* a content-missing entry.
C14_MinimalPost ==
  (Analysed /\ seo.title = <<>> /\ seo.content = <<>>
     /\ seo.metaDescription = <<>> /\ seo.slug = <<>>)
    => /\ seo.analysis.status = "poor"
       /\ seo.analysis.score = 0
       /\ Entry("Title is missing", 0) \in Range(seo.analysis.issues)
       /\ Entry("Content is missing", 0) \in Range(seo.analysis.issues)

\* C14 witness: the empty post has been scored by the server scorer.
C14_Witness ==
  /\ Analysed
  /\ seo.title = <<>> /\ seo.content = <<>>
  /\ seo.metaDescription = <<>> /\ seo.slug = <<>>
  /\ seo.analysis.checks.title.status = "error"

\* The post is well-formed: every precondition of the well-formed scenario.
IsWellFormed ==
  /\ Len(seo.title) >= 30 /\ Len(seo.title) <= 60
  /\ Len(seo.metaDescription) >= 120 /\ Len(seo.metaDescription) <= 160
  /\ Len(seo.slug) >= 1 /\ Len(seo.slug) <= 75
  /\ \A i \in 1..Len(seo.slug) : seo.slug[i] \in Lower \cup Digit \cup {"-"}
  /\ seo.doc.words >= 300
  /\ seo.doc.heading # "none"
  /\ Len(seo.doc.imgs) >= 1 /\ MissingAlt(seo.doc) = {}
  /\ seo.doc.link # "none"

\* C15: for a well-formed post the server scorer answers a score of at least
\* 80, status excellent and a success entry for title, metaDescription, slug,
\* wordCount, headings, images and links.
C15_WellFormedPost ==
  (Analysed /\ IsWellFormed)
    => /\ seo.analysis.score >= 80
       /\ seo.analysis.status = "excellent"
       /\ \A k \in {"title", "metaDescription", "slug", "wordCount",
                    "headings", "images", "links"} :
            seo.analysis.checks[k].status = "success"

\* C16: the UI analyzer shows 29 for a post with an empty title, content, meta
\* description and slug, no featured image and no tags.
C16_EmptyPostScore ==
  (Rendered /\ EmptyPost) => seo.analyzer.seoScore = 29

\* C16 witness: the component has analysed the empty post.
C16_Witness ==
  /\ Rendered /\ EmptyPost
  /\ Len(seo.analyzer.checks) = 7

\* C17: the word count of the content-length check is the number of words
\* left once the tags are removed, in the server scorer and in the UI scorer
\* alike, and the check is a warning iff that count is below 300 and a success
\* otherwise.
C17_WordCount ==
  /\ (Analysed /\ seo.content # <<>>)
       => /\ seo.analysis.checks.wordCount.n = seo.doc.words
          /\ seo.analysis.checks.wordCount.status =
               (IF seo.doc.words < 300 THEN "warning" ELSE "success")
  /\ Rendered
       => /\ seo.analyzer.wordCount = seo.doc.words
          /\ seo.analyzer.checks[3].n = seo.doc.words
          /\ seo.analyzer.checks[3].status =
               (IF seo.doc.words < 300 THEN "warning" ELSE "success")
  /\ (Analysed /\ Rendered /\ seo.content # <<>>)
       => seo.analysis.checks.wordCount.n = seo.analyzer.wordCount

\* The severity the title check is to have for a title of length n.
TitleSeverity(n) ==
  IF n = 0 THEN "error"
  ELSE IF n <= 29 \/ n > 60 THEN "warning"
  ELSE "success"

SlugSeverity(slug) ==
  IF Len(slug) = 0 THEN "error"
  ELSE IF Len(slug) > 75
          \/ \E i \in 1..Len(slug) : slug[i] \notin Lower \cup Digit \cup {"-"}
  THEN "warning"
  ELSE "success"

\* C19: the slug check of either scorer is error iff the slug is empty,
\* warning iff it is longer than 75 characters or holds a character outside
\* [a-z0-9-], and success otherwise.
C19_SlugThresholds ==
  /\ Analysed => seo.analysis.checks.slug.status = SlugSeverity(seo.slug)
  /\ Rendered => seo.analyzer.checks[4].status = SlugSeverity(seo.slug)

\* C20: the images check exists only when the content has an <img> tag; it is
\* success iff every <img> has non-empty alt text, and otherwise a warning
\* whose message and issue give the number of <img> tags without alt text,
\* the message out of the total.
C20_ImageAlt ==
  Analysed
    => LET images  == seo.analysis.checks.images
           missing == Cardinality(MissingAlt(seo.doc))
           total   == Len(seo.doc.imgs)
       IN  /\ images.status # "absent" => total >= 1
           /\ images.status = "success" <=> (total >= 1 /\ missing = 0)
           /\ (total >= 1 /\ missing > 0)
                => /\ images.status = "warning"
                   /\ images.n = missing /\ images.total = total
                   /\ Entry("images missing alt text", missing)
                        \in Range(seo.analysis.issues)

\* ----------------------------------------------------------------- C21..C23

\* The analysis of a body that passes validation has been answered.
Answered ==
  res.op = "analyze" /\ notEmpty(res.body.title) /\ notEmpty(res.body.content)

\* The words of a text: its maximal runs of characters other than whitespace,
\* by the position where each starts.
WordStarts(s) ==
  {i \in 1..Len(s) : s[i] \notin WhiteSpace /\ (i = 1 \/ s[i - 1] \in WhiteSpace)}
WordAt(s, i) ==
  SubSeq(s, i, CHOOSE k \in i..Len(s) :
                 /\ \A j \in i..k : s[j] \notin WhiteSpace
                 /\ (k = Len(s) \/ s[k + 1] \in WhiteSpace))

\* The words of the content that are the given word, whatever the case.
WholeWordCount(word, content) ==
  Cardinality({i \in WordStarts(content) :
    toLowerCaseAll(WordAt(content, i)) = toLowerCaseAll(word)})

\* count / total * 100 to two decimals.
Percentage(count, total) ==
  LET h == (count * 10000 * 2 + total) \div (2 * total)
  IN  NumToString(h \div 100) \o <<".">>
        \o NumToString((h \div 10) % 10) \o NumToString(h % 10)

\* C21: the report holds, for each title word longer than 3 characters (in
\* lower case), the number of whole-word occurrences of the word in the
\* content whatever the case, and that number as a percentage of the
\* content's words to two decimals; title words of 3 characters or fewer have
\* no entry; "React Hooks Guide" with 100 words of which 5 are "hooks" gives
\* keywordDensity["hooks"] = {count: 5, density: "5.00"}.
C21_KeywordDensity ==
  Answered =>
    LET title   == res.body.title
        content == res.body.content
        long    == {i \in WordStarts(title) : Len(WordAt(title, i)) > 3}
        words   == {toLowerCaseAll(WordAt(title, i)) : i \in long}
    IN  /\ res.status = 200
        /\ DOMAIN res.analysis.keywordDensity = words
        /\ \A word \in words :
             res.analysis.keywordDensity[word] =
               [count   |-> WholeWordCount(word, content),
                density |-> Percentage(WholeWordCount(word, content),
                                       Cardinality(WordStarts(content)))]
        /\ (title = ReactHooksGuide /\ content = HundredWords)
             => res.analysis.keywordDensity[hooks] =
                  [count |-> 5, density |-> <<"5", ".", "0", "0">>]

\* The scenario of C21 taken alone.
C21_Scenario ==
  (Answered /\ res.body.title = ReactHooksGuide /\ res.body.content = HundredWords)
    => /\ res.status = 200
       /\ DOMAIN res.analysis.keywordDensity =
            {<<"r", "e", "a", "c", "t">>, hooks, <<"g", "u", "i", "d", "e">>}
       /\ res.analysis.keywordDensity[hooks] =
            [count |-> 5, density |-> <<"5", ".", "0", "0">>]

Awarded(analysis) ==
  SumOver(ServerWeight,
          {k \in DOMAIN ServerWeight : analysis.checks[k].status = "success"})

\* C23: for every title and content that pass validation, an analysis whose
\* meta description or slug is absent or empty is answered with a report
\* (200); the check of a field the scorer received empty is an error, its
\* points are not in the score, and the issue is listed.
C23_MissingOptionalFields ==
  (Answered /\ (~notEmpty(res.body.metaDescription) \/ ~notEmpty(res.body.slug)))
    => /\ res.status = 200
       /\ res.analysis.score = MathMin100(Awarded(res.analysis))
       /\ ~notEmpty(res.body.metaDescription)
            => /\ res.analysis.checks.metaDescription.status = "error"
               /\ Entry("Meta description is missing", 0)
                    \in Range(res.analysis.issues)
       /\ res.generatedSlug = <<>>
            => /\ res.analysis.checks.slug.status = "error"
               /\ Entry("URL slug is missing", 0) \in Range(res.analysis.issues)

\* ----------------------------------------------------------------- C24..C28

\* C24: whatever POST / and PUT /:id requests were accepted, a stored post
\* whose status is PUBLISHED has a publication date, and a post that is
\* PUBLISHED before and after an update keeps the publication date it had.
C24_PublishedHasDate ==
  [][\A id \in DOMAIN posts' :
       /\ posts'[id].status = "PUBLISHED" => posts'[id].publishedAt # NoDate
       /\ (id \in DOMAIN posts /\ posts[id].status = "PUBLISHED"
             /\ posts'[id].status = "PUBLISHED")
            => posts'[id].publishedAt = posts[id].publishedAt]_vars

\* The role of the user of a response ("" for no user).
RoleOf(userId) ==
  IF userId = NoUser.id THEN NoUser.role
  ELSE (CHOOSE user \in Users : user.id = userId).role

\* The post is PUBLISHED and its publication date is not later than now.
Public(post) == post.status = "PUBLISHED" /\ ~(post.publishedAt > now)

\* C25: a list or a view answered to anyone but an ADMIN holds only posts that
\* are PUBLISHED with a publication date not later than now; the view of any
\* other post is answered 404 and leaves the posts table, its view count
\* included, as it was.  (Every step but the tick of the clock serves a request
\* and leaves its response in res.)
C25_NonAdminVisibility ==
  [][(now' = now /\ res'.op \in {"list", "view"} /\ RoleOf(res'.user) # "ADMIN")
       => /\ \A id \in res'.posts : Public(posts[id])
          /\ (res'.op = "view" /\ res'.postId # NoId /\ ~Public(posts[res'.postId]))
               => /\ res'.status = 404
                  /\ res'.code = "POST_NOT_FOUND"
                  /\ posts' = posts]_vars

\* C25 witness: the view of a stored post that is not PUBLISHED was refused to
\* a user who is not an ADMIN, and its view count is 0.
C25_Witness ==
  /\ res.op = "view" /\ res.status = 404 /\ RoleOf(res.user) # "ADMIN"
  /\ res.postId \in DOMAIN posts
  /\ posts[res.postId].status # "PUBLISHED"
  /\ posts[res.postId].viewCount = 0

\* C26: an update or a deletion of a stored post requested by a user who is
\* neither an ADMIN nor the post's author is answered 403
\* INSUFFICIENT_PERMISSIONS and leaves the posts table (the slug included) and
\* the tag links as they were; so such a request succeeds only for the author.
C26_AuthorOnly ==
  [][(/\ res'.op \in {"update", "delete"}
      /\ res'.postId \in DOMAIN posts
      /\ RoleOf(res'.user) # "ADMIN"
      /\ posts[res'.postId].authorId # res'.user)
       => /\ res'.status = 403
          /\ res'.code = "INSUFFICIENT_PERMISSIONS"
          /\ UNCHANGED <<posts, db>>]_vars

\* C26 witness: an update of a tagged post was refused to a user who is
\* neither an ADMIN nor its author.
C26_Witness ==
  /\ res.op = "update" /\ res.status = 403
  /\ res.postId \in DOMAIN posts
  /\ RoleOf(res.user) # "ADMIN"
  /\ posts[res.postId].authorId # res.user
  /\ \E l \in db.postTags : l[1] = res.postId

\* C28: an update answered 500 UPDATE_POST_ERROR leaves the stored posts
\* (fields and slug) and the tag links as they were before the request.
C28_FailedUpdateUnchanged ==
  [][(res'.op = "update" /\ res'.status = 500 /\ res'.code = "UPDATE_POST_ERROR")
       => /\ posts' = posts
          /\ db'.postTags = db.postTags]_vars

\* ----------------------------------------------------------------------- C27

\* C27: a POST /api/analytics/track-view for a stored post is answered 200 and
\* adds exactly one to the post's viewCount; when the address has no record of
\* the post for today, a record with one view and one unique view is added and
\* no other record changes; when it has one, only that record's views grow by
\* one.  Views of the post from other addresses make no difference.
C27_TrackView ==
  [][(now' = now /\ res'.op = "track" /\ res'.postId \in DOMAIN posts)
       => LET postId == res'.postId
              ipAddress == res'.ipAddress
              today == setHours0(now)
              own == {a \in db.postAnalytics :
                        a.postId = postId /\ a.date = today /\ a.ipAddress = ipAddress}
          IN  /\ res'.status = 200
              /\ postId \in DOMAIN posts'
              /\ posts'[postId].viewCount = posts[postId].viewCount + 1
              /\ IF own = {}
                 THEN db'.postAnalytics = db.postAnalytics \cup
                        {[postId |-> postId, date |-> today, views |-> 1,
                          uniqueViews |-> 1, ipAddress |-> ipAddress]}
                 ELSE \E a \in own :
                        db'.postAnalytics = (db.postAnalytics \ {a}) \cup
                          {[a EXCEPT !.views = @ + 1]}]_vars

\* ----------------------------------------------------------------------- C29

\* A POST /create request for the record is between two of its awaits.
BackupInFlight(id) ==
  \E r \in Procs : req[r].op = "backup" /\ req[r].backupId = id

C30_ModerationGate ==
  [][/\ res'.op = "comments"
          => \A id \in res'.comments \cup res'.replies :
               id \in DOMAIN db.comments /\ db.comments[id].status = "APPROVED"
     /\ \A id \in DOMAIN db'.comments \ DOMAIN db.comments :
          LET comment == db'.comments[id]
          IN  /\ res'.op = "comment" /\ res'.commentId = id
              /\ res'.comment.status = comment.status
              /\ RoleOf(res'.user) # "ADMIN" => comment.status \in {"PENDING", "SPAM"}
              /\ spamChecks[<<res'.comment.content, res'.comment.authorEmail,
                              res'.comment.authorName>>].isSpam
                   => comment.status = "SPAM"
     /\ \A id \in DOMAIN db.comments \cap DOMAIN db'.comments :
          (db.comments[id].status # "APPROVED" /\ db'.comments[id].status = "APPROVED")
            => /\ RoleOf(res'.user) \in {"ADMIN", "EDITOR"}
               /\ res'.status = 200
               /\ \/ res'.op = "status" /\ res'.commentId = id /\ res'.code = "APPROVED"
                  \/ res'.op = "bulk" /\ res'.code = "approve" /\ id \in res'.comments]_vars

\* C30 witness: the public list has returned an approved comment while a reply
\* to it is stored as SPAM and is not returned.
C30_Witness ==
  /\ res.op = "comments" /\ res.status = 200
  /\ \E id \in res.comments, spam \in DOMAIN db.comments :
       /\ db.comments[spam].parentId = id
       /\ db.comments[spam].status = "SPAM"
       /\ spam \notin res.comments \cup res.replies

====
